---- MODULE Spec2Model ----
(***************************************************************************)
(* Lyric-Chord-Composer: chord-to-notation derivation and row layout.      *)
(*                                                                         *)
(* Editor path : StaffNotes.renderStaff (src/components/PrintDialog.tsx)   *)
(*               Tablature            (src/components/Tablature.tsx)       *)
(* Print path  : generateNotesHtml / generateTablatureHtml                 *)
(*               (src/services/printService/index.ts)                      *)
(*               generatePageHtml (src/services/printService/              *)
(*               htmlTemplates.ts)                                         *)
(*                                                                         *)
(* JavaScript numbers are modelled as exact rationals <<n, d>> extended    *)
(* with the IEEE specials: <<1,0>> = Infinity, <<-1,0>> = -Infinity,       *)
(* <<0,0>> = NaN.  Rounding of finite values is not modelled.              *)
(* Strings are sequences of one-character strings.                        *)
(***************************************************************************)
EXTENDS Integers, Sequences, FiniteSets, TLC

VARIABLES
  beatChords,   \* prop beatChords of StaffNotes / Tablature (flat, 4 per measure)
  width,        \* prop width (a number)
  numMeasures,  \* prop numMeasures
  scale,        \* prop scale of StaffNotes
  staffOut,     \* what StaffNotes.renderStaff built, or NotRendered
  tabOut,       \* what Tablature returned, or NotRendered
  staffTask,    \* the StaffNotes component: mounted, effect due, renders waiting
  page,         \* PageData handed to generatePageHtml
  options,      \* PrintOptions handed to generatePageHtml
  pageOut,      \* what generatePageHtml returned, or NotRendered
  calls,        \* the renderer invocations generatePageHtml made, in order
  chordName,    \* the chord name handed to the two chord resolvers
  plainName,    \* the same chord written without annotation / quality word
  lib,          \* how the chord-table lookup of the library behaves
  editorNotes,  \* what getChordNotesVexFlow returned, or NotRendered
  printNotes,   \* what getChordNotes returned, or NotRendered
  compositions,        \* store: the notes of every composition, by id
  currentComposition,  \* store: the id of the current composition, or NoComposition
  currentNotes,        \* store: the notes of the currentComposition object
  allPages,            \* EditorScreen state allPages
  currentPage,         \* EditorScreen state currentPage (0-based)
  lastOp,              \* the operation of the editor that ran last
  ops,                 \* the number of operations run so far
  composition,         \* the Composition handed to generatePrintHtml
  printOptions,        \* the PrintOptions handed to generatePrintHtml
  document,            \* what generatePrintHtml returned last, or NotRendered
  state,               \* the composition store: compositions, currentComposition
  edits,               \* the settings and section edits of the store so far
  awaiting             \* store: the calls that wait for a service, per function

vars == <<beatChords, width, numMeasures, scale, staffOut, tabOut, staffTask,
          page, options, pageOut, calls,
          chordName, plainName, lib, editorNotes, printNotes,
          compositions, currentComposition, currentNotes, allPages, currentPage,
          lastOp, ops,
          composition, printOptions, document, state, edits,
          awaiting>>

\* the variables of the renderers and the variables of the resolvers
renderVars == <<beatChords, width, numMeasures, scale, staffOut, tabOut,
                staffTask, page, options, pageOut, calls>>
resolverVars == <<chordName, plainName, lib, editorNotes, printNotes>>
screenVars == <<compositions, currentComposition, currentNotes, allPages,
                currentPage, lastOp, ops>>
printVars == <<composition, printOptions, document>>
storeVars == <<state, edits, awaiting>>

NotRendered == [done |-> FALSE]

\* an array element that was never assigned, and what JSON.stringify writes
\* for it
Hole == <<"(hole)">>
JsonNull == <<"null">>

\* a key an object does not have
Undefined == <<"(undefined)">>

\* null and undefined: the values that are false for ! and || besides ''
Nullish(v) == v = JsonNull \/ v = Undefined \/ v = Hole

\* ------------------------------------------------------------------------
\* Bounds of the model
\* ------------------------------------------------------------------------
MaxMeasures == 4
MaxPages == 3      \* pages of a composition in the editor
MaxOps == 4        \* operations of the editor in one run
MaxStaffEvents == 1  \* re-renders with new props or unmounts of StaffNotes
MaxStoreEdits == 2   \* settings and section edits of the store in one run
MaxAwaiting == 2     \* calls of the store waiting for a service at a time

\* ------------------------------------------------------------------------
\* JavaScript numbers
\* ------------------------------------------------------------------------
Abs(n) == IF n < 0 THEN -n ELSE n

Sign(n) == IF n < 0 THEN -1 ELSE IF n > 0 THEN 1 ELSE 0

RECURSIVE GCD(_, _)
GCD(a, b) == IF b = 0 THEN a ELSE GCD(b, a % b)

Norm(n, d) ==
  IF d = 0 THEN <<Sign(n), 0>>
  ELSE LET g == GCD(Abs(n), Abs(d))
       IN  <<(Sign(d) * n) \div g, Abs(d) \div g>>

Num(n) == <<n, 1>>
NaN == <<0, 0>>
PosInf == <<1, 0>>
NegInf == <<-1, 0>>

IsNaN(x) == x = NaN
IsInf(x) == x[2] = 0 /\ x[1] # 0
IsFinite(x) == x[2] # 0

RNeg(x) == <<-x[1], x[2]>>

RAdd(x, y) ==
  IF IsNaN(x) \/ IsNaN(y) THEN NaN
  ELSE IF IsInf(x) /\ IsInf(y) THEN (IF x = y THEN x ELSE NaN)
  ELSE IF IsInf(x) THEN x
  ELSE IF IsInf(y) THEN y
  ELSE Norm(x[1] * y[2] + y[1] * x[2], x[2] * y[2])

RSub(x, y) == RAdd(x, RNeg(y))

RMul(x, y) ==
  IF IsNaN(x) \/ IsNaN(y) THEN NaN
  ELSE IF IsInf(x) \/ IsInf(y)
       THEN <<Sign(x[1]) * Sign(y[1]), 0>>      \* Infinity * 0 = NaN
  ELSE Norm(x[1] * y[1], x[2] * y[2])

RDiv(x, y) ==
  IF IsNaN(x) \/ IsNaN(y) THEN NaN
  ELSE IF IsInf(x) /\ IsInf(y) THEN NaN
  ELSE IF IsInf(y) THEN Num(0)
  ELSE IF IsInf(x) THEN <<x[1] * (IF y[1] < 0 THEN -1 ELSE 1), 0>>
  ELSE IF y[1] = 0 THEN <<Sign(x[1]), 0>>       \* n/0 = +-Infinity, 0/0 = NaN
  ELSE Norm(x[1] * y[2], x[2] * y[1])

RLess(x, y) == IsFinite(x) /\ IsFinite(y) /\ x[1] * y[2] < y[1] * x[2]

\* ------------------------------------------------------------------------
\* Strings
\* ------------------------------------------------------------------------
\* the white space of String.prototype.trim and of \s ; a code point a
\* string of the model cannot hold is written "U+XXXX"
WhiteSpace ==
  { " ", "\t", "\n", "\r", "\f", " ", "U+0009", "U+000A", "U+000B",
    "U+000C", "U+000D", "U+0020", "U+00A0", "U+1680", "U+2000", "U+2001",
    "U+2002", "U+2003", "U+2004", "U+2005", "U+2006", "U+2007", "U+2008",
    "U+2009", "U+200A", "U+2028", "U+2029", "U+202F", "U+205F", "U+3000",
    "U+FEFF" }

IsSpace(c) == c \in WhiteSpace

LowerOf(c) ==
  CASE c = "A" -> "a" [] c = "B" -> "b" [] c = "C" -> "c" [] c = "D" -> "d"
    [] c = "E" -> "e" [] c = "F" -> "f" [] c = "G" -> "g" [] c = "H" -> "h"
    [] c = "I" -> "i" [] c = "J" -> "j" [] c = "K" -> "k" [] c = "L" -> "l"
    [] c = "M" -> "m" [] c = "N" -> "n" [] c = "O" -> "o" [] c = "P" -> "p"
    [] c = "Q" -> "q" [] c = "R" -> "r" [] c = "S" -> "s" [] c = "T" -> "t"
    [] c = "U" -> "u" [] c = "V" -> "v" [] c = "W" -> "w" [] c = "X" -> "x"
    [] c = "Y" -> "y" [] c = "Z" -> "z"
    [] OTHER -> c

UpperOf(c) ==
  CASE c = "a" -> "A" [] c = "b" -> "B" [] c = "c" -> "C" [] c = "d" -> "D"
    [] c = "e" -> "E" [] c = "f" -> "F" [] c = "g" -> "G" [] c = "h" -> "H"
    [] c = "i" -> "I" [] c = "j" -> "J" [] c = "k" -> "K" [] c = "l" -> "L"
    [] c = "m" -> "M" [] c = "n" -> "N" [] c = "o" -> "O" [] c = "p" -> "P"
    [] c = "q" -> "Q" [] c = "r" -> "R" [] c = "s" -> "S" [] c = "t" -> "T"
    [] c = "u" -> "U" [] c = "v" -> "V" [] c = "w" -> "W" [] c = "x" -> "X"
    [] c = "y" -> "Y" [] c = "z" -> "Z"
    [] OTHER -> c

toLowerCase(s) == [i \in 1..Len(s) |-> LowerOf(s[i])]
toUpperCase(s) == [i \in 1..Len(s) |-> UpperOf(s[i])]

RECURSIVE LeadingSpaces(_)
LeadingSpaces(s) ==
  IF s # <<>> /\ IsSpace(Head(s)) THEN 1 + LeadingSpaces(Tail(s)) ELSE 0

RECURSIVE TrailingSpaces(_)
TrailingSpaces(s) ==
  IF s # <<>> /\ IsSpace(s[Len(s)])
  THEN 1 + TrailingSpaces(SubSeq(s, 1, Len(s) - 1)) ELSE 0

trim(s) == SubSeq(s, 1 + LeadingSpaces(s), Len(s) - TrailingSpaces(s))

\* does the literal lit (lower case) occur in s at position i, ignoring case
MatchesAtCI(s, i, lit) ==
  /\ i + Len(lit) - 1 <= Len(s)
  /\ \A k \in 1..Len(lit) : LowerOf(s[i + k - 1]) = lit[k]

\* s.replace(/\s*LIT/gi, '')
RECURSIVE StripAnnotation(_, _)
StripAnnotation(s, lit) ==
  IF s = <<>> THEN <<>>
  ELSE LET k == LeadingSpaces(s)
       IN  IF MatchesAtCI(s, k + 1, lit)
           THEN StripAnnotation(SubSeq(s, k + Len(lit) + 1, Len(s)), lit)
           ELSE <<Head(s)>> \o StripAnnotation(Tail(s), lit)

\* s.replace(/\s+LIT$/i, repl)
ReplaceSuffixWord(s, lit, repl) ==
  LET p == Len(s) - Len(lit) + 1       \* where the literal would start
  IN  IF p >= 2 /\ MatchesAtCI(s, p, lit) /\ IsSpace(s[p - 1])
      THEN LET head == SubSeq(s, 1, p - 1)
           IN  SubSeq(head, 1, Len(head) - TrailingSpaces(head)) \o repl
      ELSE s

\* s.replace(/\s+/g, '')
removeSpaces(s) == SelectSeq(s, LAMBDA c : ~IsSpace(c))

includes(s, c) == \E i \in 1..Len(s) : s[i] = c
startsWith(s, c) == s # <<>> /\ s[1] = c

\* ------------------------------------------------------------------------
\* Chord names used as inputs
\* ------------------------------------------------------------------------
Empty  == <<>>
Blank  == <<" ">>
Dash   == <<"-">>
ChC    == <<"C">>
ChG    == <<"G">>
ChA    == <<"A">>
ChAm   == <<"A", "m">>
ChH    == <<"H">>                  \* no root letter: unresolvable

\* ------------------------------------------------------------------------
\* Chord resolver of the editor (PrintDialog.tsx)
\* ------------------------------------------------------------------------
\* Tonal.Chord.get(name).notes : the static chord table of the music-theory
\* library, restricted to the names the model uses; any other name has no
\* notes (the library returns the empty chord).
\* the note a perfect fifth above a note of the library; <<>> if the text is
\* not a note with at most one accidental
TonalP5(note) ==
  CASE note = <<"C">>      -> <<"G">>      [] note = <<"C", "#">> -> <<"G", "#">>
    [] note = <<"C", "b">> -> <<"G", "b">> [] note = <<"D">>      -> <<"A">>
    [] note = <<"D", "#">> -> <<"A", "#">> [] note = <<"D", "b">> -> <<"A", "b">>
    [] note = <<"E">>      -> <<"B">>      [] note = <<"E", "#">> -> <<"B", "#">>
    [] note = <<"E", "b">> -> <<"B", "b">> [] note = <<"F">>      -> <<"C">>
    [] note = <<"F", "#">> -> <<"C", "#">> [] note = <<"F", "b">> -> <<"C", "b">>
    [] note = <<"G">>      -> <<"D">>      [] note = <<"G", "#">> -> <<"D", "#">>
    [] note = <<"G", "b">> -> <<"D", "b">> [] note = <<"A">>      -> <<"E">>
    [] note = <<"A", "#">> -> <<"E", "#">> [] note = <<"A", "b">> -> <<"E", "b">>
    [] note = <<"B">>      -> <<"F", "#">> [] note = <<"B", "#">> -> <<"F", "#", "#">>
    [] note = <<"B", "b">> -> <<"F">>
    [] OTHER               -> <<>>

\* the name is a note followed by the chord type "5"
TonalIsFifthChord(name) ==
  /\ Len(name) \in {2, 3}
  /\ name[Len(name)] = "5"
  /\ TonalP5(SubSeq(name, 1, Len(name) - 1)) # <<>>

TonalChordNotes(name) ==
  CASE name = <<"C">>                -> << <<"C">>, <<"E">>, <<"G">> >>
    [] name = <<"G">>                -> << <<"G">>, <<"B">>, <<"D">> >>
    [] name = <<"A">>                -> << <<"A">>, <<"C", "#">>, <<"E">> >>
    [] name = <<"D">>                -> << <<"D">>, <<"F", "#">>, <<"A">> >>
    [] name = <<"E">>                -> << <<"E">>, <<"G", "#">>, <<"B">> >>
    [] name = <<"F">>                -> << <<"F">>, <<"A">>, <<"C">> >>
    [] name = <<"B">>                -> << <<"B">>, <<"D", "#">>, <<"F", "#">> >>
    [] name = <<"A", "m">>           -> << <<"A">>, <<"C">>, <<"E">> >>
    [] name = <<"D", "m">>           -> << <<"D">>, <<"F">>, <<"A">> >>
    [] name = <<"E", "b">>           -> << <<"E", "b">>, <<"G">>, <<"B", "b">> >>
    [] name = <<"B", "b">>           -> << <<"B", "b">>, <<"D">>, <<"F">> >>
    [] name = <<"C", "#">>           -> << <<"C", "#">>, <<"E", "#">>, <<"G", "#">> >>
    [] name = <<"A", " ", "5">>      -> << <<"A">>, <<"E">> >>
    [] TonalIsFifthChord(name)       ->
         << SubSeq(name, 1, Len(name) - 1),
            TonalP5(SubSeq(name, 1, Len(name) - 1)) >>
    [] name = <<"C", "9">>           -> << <<"C">>, <<"E">>, <<"G">>, <<"B", "b">>, <<"D">> >>
    [] OTHER                         -> <<>>

\* The lookup is an external service; besides the library's own table the
\* resolvers are run against a table without the power-chord type, against
\* a table that knows no chord, and against a lookup that throws.
LibTonal   == "tonal"
LibNoPower == "noPower"
LibEmpty   == "empty"
LibThrows  == "throws"

\* the outcome "the call threw" of a lookup
Thrown == << <<"(throw)">> >>

\* Tonal.Chord.get(name).notes under the lookup behaviour l
ChordGet(l, name) ==
  CASE l = LibThrows  -> Thrown
    [] l = LibEmpty   -> <<>>
    [] l = LibNoPower -> IF name # <<>> /\ name[Len(name)] = "5"
                         THEN <<>> ELSE TonalChordNotes(name)
    [] OTHER          -> TonalChordNotes(name)

IsRootLetter(c) == UpperOf(c) \in {"A", "B", "C", "D", "E", "F", "G"}

\* cleanName.match(/^([A-G][#b]?)/i) ; the result is the matched text or
\* NoMatch
NoMatch == <<"(null)">>

rootMatch(s) ==
  IF s = <<>> \/ ~IsRootLetter(s[1]) THEN NoMatch
  ELSE IF Len(s) >= 2 /\ (s[2] = "#" \/ LowerOf(s[2]) = "b")
       THEN SubSeq(s, 1, 2)
       ELSE SubSeq(s, 1, 1)

\* /^[A-G][#b]?5$/.test(tonalName)   (case sensitive)
IsPowerChordName(s) ==
  /\ Len(s) \in {2, 3}
  /\ s[1] \in {"A", "B", "C", "D", "E", "F", "G"}
  /\ s[Len(s)] = "5"
  /\ Len(s) = 3 => s[2] \in {"#", "b"}

getFifth(root) ==
  CASE root = <<"C">>      -> <<"G">>
    [] root = <<"C", "#">> -> <<"G", "#">>
    [] root = <<"D", "b">> -> <<"A", "b">>
    [] root = <<"D">>      -> <<"A">>
    [] root = <<"D", "#">> -> <<"A", "#">>
    [] root = <<"E", "b">> -> <<"B", "b">>
    [] root = <<"E">>      -> <<"B">>
    [] root = <<"F">>      -> <<"C">>
    [] root = <<"F", "#">> -> <<"C", "#">>
    [] root = <<"G", "b">> -> <<"D", "b">>
    [] root = <<"G">>      -> <<"D">>
    [] root = <<"G", "#">> -> <<"D", "#">>
    [] root = <<"A", "b">> -> <<"E", "b">>
    [] root = <<"A">>      -> <<"E">>
    [] root = <<"A", "#">> -> <<"E", "#">>
    [] root = <<"B", "b">> -> <<"F">>
    [] root = <<"B">>      -> <<"F", "#">>
    [] OTHER               -> <<"E">>

\* `${note}/${octave}` with the note lower-cased
\* s.replace(from, to) for a one-character string from: the first occurrence
ReplaceFirst(s, from, to) ==
  IF \E i \in 1..Len(s) : s[i] = from
  THEN LET i == CHOOSE k \in 1..Len(s) :
                  s[k] = from /\ \A h \in 1..(k - 1) : s[h] # from
       IN  SubSeq(s, 1, i - 1) \o to \o SubSeq(s, i + 1, Len(s))
  ELSE s

\* the music sharp and flat signs
SharpSign == "U+266F"
FlatSign == "U+266D"

formatNoteForVexFlow(noteName, octave) ==
  [note   |-> ReplaceFirst(ReplaceFirst(toLowerCase(noteName), SharpSign, <<"#">>),
                           FlatSign, <<"b">>),
   octave |-> octave]

\* mutant: the pitch list is not cut
FirstNAll(s, n) == s

\* s.slice(0, n)
FirstN(s, n) == SubSeq(s, 1, IF Len(s) < n THEN Len(s) ELSE n)

\* the three .replace(/\s*\(...\)/gi, '') and .trim() of the editor resolver
EditorCleanName(name) ==
  trim(StripAnnotation(StripAnnotation(StripAnnotation(
         name, <<"(", "e", "a", "s", "y", ")">>),
         <<"(", "b", "a", "r", "r", "e", ")">>),
         <<"(", "a", "l", "t", ")">>))

\* rootMatch ? rootMatch[1].toUpperCase() : null
RootOf(cleanName) ==
  IF rootMatch(cleanName) = NoMatch THEN NoMatch
  ELSE toUpperCase(rootMatch(cleanName))

\* the quality words replaced and the spaces removed
EditorTonalName(cleanName) ==
  removeSpaces(ReplaceSuffixWord(ReplaceSuffixWord(
                 cleanName, <<"m", "a", "j", "o", "r">>, <<>>),
                 <<"m", "i", "n", "o", "r">>, <<"m">>))

\* getChordNotesVexFlow run against the lookup behaviour l; a throw inside
\* the try block ends in the catch, which returns []
getChordNotesVexFlowWith(l, name) ==
  IF Nullish(name) \/ name = <<>> \/ trim(name) = <<>> \/ name = Dash
  THEN <<>>
  ELSE
    LET cleanName == EditorCleanName(name)
        root      == RootOf(cleanName)
        tonalName == EditorTonalName(cleanName)
        first     == ChordGet(l, tonalName)
    IN  IF first = Thrown THEN <<>>
        ELSE IF first = <<>> /\ root # NoMatch /\ IsPowerChordName(tonalName)
        THEN << formatNoteForVexFlow(root, 3),
                formatNoteForVexFlow(getFifth(root), 3) >>
        ELSE
          LET notes == IF first = <<>> /\ root # NoMatch
                       THEN ChordGet(l, root) ELSE first
          IN  IF notes = Thrown THEN <<>>
              ELSE IF notes = <<>>
              THEN IF root # NoMatch
                   THEN << formatNoteForVexFlow(root, 4) >>
                   ELSE <<>>
              ELSE [i \in 1..Len(FirstN(notes, 4)) |->
                      formatNoteForVexFlow(notes[i], 4)]

\* the resolver as the components call it, against the library's table
getChordNotesVexFlow(name) == getChordNotesVexFlowWith(LibTonal, name)

\* ------------------------------------------------------------------------
\* StaffNotes.renderStaff (PrintDialog.tsx): notes of one measure
\* ------------------------------------------------------------------------
Min(a, b) == IF a < b THEN a ELSE b

\* beatChords[i] || ''   (i is 0-based; a missing element is undefined)
ChordAt(bc, i) == IF i + 1 \in 1..Len(bc) THEN bc[i + 1] ELSE <<>>

\* !nextChord || nextChord.trim() === '' || nextChord === '-'
IsEmptyBeat(chord) ==
  Nullish(chord) \/ chord = <<>> \/ trim(chord) = <<>> \/ chord = Dash

\* mutant: the count does not stop at the next chord
CountEmptyNoBreak(bc, startBeat, c) ==
  Cardinality({k \in c..3 : IsEmptyBeat(ChordAt(bc, startBeat + k))})

\* the loop "for (let c = b + 1; c < 4; c++)" counting consecutive empty
\* positions, started at c
RECURSIVE CountEmpty(_, _, _)
CountEmpty(bc, startBeat, c) ==
  IF c < 4 /\ IsEmptyBeat(ChordAt(bc, startBeat + c))
  THEN 1 + CountEmpty(bc, startBeat, c + 1)
  ELSE 0

\* mutant: the duration is not extended over the empty positions
noteDurationsAllQuarter(emptyCount) == "q"

noteDurations(emptyCount) ==
  CASE emptyCount = 0 -> "q"
    [] emptyCount = 1 -> "h"
    [] emptyCount = 2 -> "hd"
    [] emptyCount = 3 -> "w"

\* the accidental modifier added to key i of a StaveNote
AccidentalOf(noteStr) ==
  IF includes(noteStr, "#") THEN "#"
  ELSE IF includes(noteStr, "b") /\ ~startsWith(noteStr, "b") THEN "b"
  ELSE ""

StaveNote(b, chordNotes, duration) ==
  [kind        |-> "StaveNote",
   beat        |-> b,
   keys        |-> chordNotes,
   duration    |-> duration,
   accidentals |-> [i \in 1..Len(chordNotes) |-> AccidentalOf(chordNotes[i].note)]]

\* mutant: a rest of two beats instead of the quarter placeholder
GhostNoteHalf(b) ==
  [kind |-> "GhostNote", beat |-> b, keys |-> <<>>, duration |-> "h",
   accidentals |-> <<>>]

GhostNote(b) ==
  [kind |-> "GhostNote", beat |-> b, keys |-> <<>>, duration |-> "q",
   accidentals |-> <<>>]

\* the loop "for (let b = 0; b < 4; b++)" of measure m, from beat b on
RECURSIVE BeatLoop(_, _, _, _, _)
BeatLoop(bc, startBeat, b, processedBeats, notes) ==
  IF b >= 4 THEN notes
  ELSE IF b \in processedBeats
       THEN BeatLoop(bc, startBeat, b + 1, processedBeats, notes)
  ELSE
    LET chord      == ChordAt(bc, startBeat + b)
        chordNotes == getChordNotesVexFlow(chord)
        emptyCount == Min(CountEmpty(bc, startBeat, b + 1), 3)
    IN  IF Len(chordNotes) > 0
        THEN BeatLoop(bc, startBeat, b + 1,
                      processedBeats \cup (b .. b + emptyCount),
                      Append(notes,
                             StaveNote(b, chordNotes, noteDurations(emptyCount))))
        ELSE BeatLoop(bc, startBeat, b + 1,
                      processedBeats \cup {b},
                      Append(notes, GhostNote(b)))

MeasureNotes(bc, m) == BeatLoop(bc, m * 4, 0, {}, <<>>)

\* ------------------------------------------------------------------------
\* StaffNotes.renderStaff: measure widths and staves
\* ------------------------------------------------------------------------
StaffMargin == 20          \* scaledWidth - 20
StaffClefAllowance == 40   \* totalWidth / numMeasures + 40
StaffLeft == 10            \* xPos = 10

StaffTotalWidth(w, sc) == RSub(RDiv(w, sc), Num(StaffMargin))

StaffFirstMeasureWidth(w, sc, n) ==
  RAdd(RDiv(StaffTotalWidth(w, sc), Num(n)), Num(StaffClefAllowance))

StaffOtherMeasureWidth(w, sc, n) ==
  RDiv(RSub(StaffTotalWidth(w, sc), StaffFirstMeasureWidth(w, sc, n)),
       Num(n - 1))

Stave(w, sc, n, m) ==
  LET first == StaffFirstMeasureWidth(w, sc, n)
      other == StaffOtherMeasureWidth(w, sc, n)
      xPos  == IF m = 0 THEN Num(StaffLeft)
               ELSE RAdd(RAdd(Num(StaffLeft), first), RMul(Num(m - 1), other))
      mw    == IF m = 0 THEN first ELSE other
  IN  [x           |-> xPos,
       width       |-> mw,
       clef        |-> (m = 0),
       formatWidth |-> IF m = 0 THEN RSub(mw, Num(80)) ELSE RSub(mw, Num(20))]

renderStaff(bc, w, sc, n) ==
  [done              |-> TRUE,
   firstMeasureWidth |-> StaffFirstMeasureWidth(w, sc, n),
   otherMeasureWidth |-> StaffOtherMeasureWidth(w, sc, n),
   staves            |-> [i \in 1..n |-> Stave(w, sc, n, i - 1)],
   voices            |-> [i \in 1..n |-> MeasureNotes(bc, i - 1)]]

\* ------------------------------------------------------------------------
\* Fingering table (static data handed to the renderers)
\* ------------------------------------------------------------------------
\* fingering is ordered low E, A, D, G, B, high e
ChordsData ==
  << [name |-> ChA,  fingering |-> <<"x", "0", "2", "2", "2", "0">>],
     [name |-> ChC,  fingering |-> <<"x", "3", "2", "0", "1", "0">>],
     [name |-> ChAm, fingering |-> <<"x", "0", "2", "2", "1", "0">>] >>

NoFingering == <<>>

\* chordsData.find(c => c.name === chordName) : the first entry of that name
RECURSIVE FindChord(_, _)
FindChord(data, name) ==
  IF data = <<>> THEN NoFingering
  ELSE IF Head(data).name = name THEN Head(data).fingering
  ELSE FindChord(Tail(data), name)

\* [...fingering].reverse() : Array.prototype.reverse swaps the elements
\* lower <-> upper while lower < middle
RECURSIVE ReverseFrom(_, _)
ReverseFrom(a, lower) ==
  LET upper == Len(a) + 1 - lower
  IN  IF lower >= upper THEN a
      ELSE ReverseFrom([a EXCEPT ![lower] = a[upper], ![upper] = a[lower]],
                       lower + 1)

\* mutant: the fingering is displayed in the order it is stored
reverseNot(a) == a

reverse(a) == ReverseFrom(a, 1)

\* fret === 'x' ? 'x' : fret
displayValue(fret) == IF fret = "x" THEN "x" ELSE fret

\* ------------------------------------------------------------------------
\* Tablature component (Tablature.tsx)
\* ------------------------------------------------------------------------
TabMargin == 20            \* width - 20
TabClefAllowance == 40     \* totalWidth / numMeasures + 40
TabLeft == 10              \* currentX = 10, measureStart = 10
TabHeight == 60            \* height = 60

TabTotalWidth(w) == RSub(w, Num(TabMargin))

TabFirstMeasureWidth(w, n) ==
  IF n > 1
  THEN RAdd(RDiv(TabTotalWidth(w), Num(n)), Num(TabClefAllowance))
  ELSE TabTotalWidth(w)

\* mutant: the other measures take an equal share of the total width
TabOtherMeasureWidthEqualSplit(w, n) ==
  IF n > 1 THEN RDiv(TabTotalWidth(w), Num(n)) ELSE Num(0)

TabOtherMeasureWidth(w, n) ==
  IF n > 1
  THEN RDiv(RSub(TabTotalWidth(w), TabFirstMeasureWidth(w, n)), Num(n - 1))
  ELSE Num(0)

\* beatFingerings[i]
BeatFingering(name) ==
  IF IsEmptyBeat(name) THEN NoFingering
  ELSE FindChord(ChordsData, name)

\* getBarLinePositions : the loop "for (let m = 0; m <= numMeasures; m++)"
RECURSIVE BarLineLoop(_, _, _, _, _)
BarLineLoop(w, n, m, currentX, positions) ==
  IF m > n THEN positions
  ELSE BarLineLoop(w, n, m + 1,
                   IF m = 0 THEN RAdd(currentX, TabFirstMeasureWidth(w, n))
                   ELSE IF m < n THEN RAdd(currentX, TabOtherMeasureWidth(w, n))
                   ELSE currentX,
                   Append(positions, currentX))

getBarLinePositions(w, n) == BarLineLoop(w, n, 0, Num(TabLeft), <<>>)

getBeatXPosition(w, n, beatIndex) ==
  LET measureIndex      == beatIndex \div 4
      beatWithinMeasure == beatIndex % 4
      measureStart ==
        IF measureIndex > 0
        THEN RAdd(RAdd(Num(TabLeft), TabFirstMeasureWidth(w, n)),
                  RMul(Num(measureIndex - 1), TabOtherMeasureWidth(w, n)))
        ELSE Num(TabLeft)
      currentMeasureWidth ==
        IF measureIndex = 0 THEN TabFirstMeasureWidth(w, n)
        ELSE TabOtherMeasureWidth(w, n)
      beatWidth == RDiv(currentMeasureWidth, Num(4))
  IN  RAdd(RAdd(measureStart, RMul(beatWidth, Num(beatWithinMeasure))),
           RDiv(beatWidth, Num(2)))

\* the fret texts of one beat column, top to bottom
TabColumn(w, n, beatIndex, fingering) ==
  LET displayFingering == reverse(fingering)
      stringHeight     == RDiv(Num(TabHeight), Num(6))
  IN  [stringIndex \in 1..Len(displayFingering) |->
         [text |-> displayValue(displayFingering[stringIndex]),
          top  |-> RSub(RAdd(RMul(stringHeight, Num(stringIndex - 1)),
                             RDiv(stringHeight, Num(2))), Num(7))]]

Tablature(bc, w, n) ==
  [done              |-> TRUE,
   firstMeasureWidth |-> TabFirstMeasureWidth(w, n),
   otherMeasureWidth |-> TabOtherMeasureWidth(w, n),
   stringLines       |-> [k \in 1..6 |->
                            RAdd(RMul(RDiv(Num(TabHeight), Num(6)), Num(k - 1)),
                                 RDiv(RDiv(Num(TabHeight), Num(6)), Num(2)))],
   barLines          |-> getBarLinePositions(w, n),
   columns           |-> [i \in 1..Len(bc) |->
                            IF BeatFingering(bc[i]) = NoFingering
                            THEN [drawn |-> FALSE]
                            ELSE [drawn |-> TRUE,
                                  beatX |-> getBeatXPosition(w, n, i - 1),
                                  left  |-> RSub(getBeatXPosition(w, n, i - 1), Num(8)),
                                  frets |-> TabColumn(w, n, i - 1, BeatFingering(bc[i]))]]]

\* ------------------------------------------------------------------------
\* Chord resolver of the print path (printService/index.ts)
\* ------------------------------------------------------------------------
\* String(n) for an integer n
Digits == <<"0", "1", "2", "3", "4", "5", "6", "7", "8", "9">>

RECURSIVE NatText(_)
NatText(n) ==
  IF n < 10 THEN <<Digits[n + 1]>> ELSE NatText(n \div 10) \o <<Digits[(n % 10) + 1]>>

IntText(n) ==
  IF n \in 0..9 THEN <<Digits[n + 1]>>
  ELSE IF n < 0 THEN <<"-">> \o NatText(-n) ELSE NatText(n)

\* s.includes(sub) for a string sub
IncludesText(s, sub) ==
  \E i \in 1..(Len(s) - Len(sub) + 1) : SubSeq(s, i, i + Len(sub) - 1) = sub

IsDigit(c) == \E d \in 1..10 : Digits[d] = c
DigitValue(c) == (CHOOSE d \in 1..10 : Digits[d] = c) - 1

\* the length of the run of the character c (or of digits, for c = "9")
\* a string starts with
InRun(ch, c) == IF c = "9" THEN IsDigit(ch) ELSE ch = c

RunLength(s, c) ==
  CHOOSE k \in 0..Len(s) :
    /\ \A i \in 1..k : InRun(s[i], c)
    /\ k < Len(s) => ~InRun(s[k + 1], c)

RECURSIVE NatValue(_)
NatValue(ds) ==
  IF ds = <<>> THEN 0
  ELSE IF Len(ds) = 1 THEN DigitValue(ds[1])
  ELSE 10 * NatValue(SubSeq(ds, 1, Len(ds) - 1)) + DigitValue(ds[Len(ds)])

\* the semitones of a letter above C
Semitones(letter) ==
  CASE letter = "C" -> 0 [] letter = "D" -> 2 [] letter = "E" -> 4
    [] letter = "F" -> 5 [] letter = "G" -> 7 [] letter = "A" -> 9
    [] letter = "B" -> 11

\* Note.midi(fullNote) of the music-theory library: a letter in either case,
\* a run of #, of b or of x, an octave, white space; NoMidi stands for null
\* (not a note name, no octave, or outside 0..127)
NoMidi == -1

\* a midi number, or NoMidi outside 0..127
MidiInRange(midi) == IF midi < 0 \/ midi > 127 THEN NoMidi ELSE midi

\* the alteration a run of n signs stands for
Alteration(sign, n) ==
  CASE sign = "#" -> n [] sign = "b" -> -n [] sign = "x" -> 2 * n [] OTHER -> 0

\* the octave and what follows it: the text after the accidentals
OctaveMidi(letter, alt, r2) ==
  LET neg == r2 # <<>> /\ r2[1] = "-"
      r3  == IF neg THEN Tail(r2) ELSE r2
      d   == RunLength(r3, "9")
  IN  IF d = 0 \/ trim(SubSeq(r3, d + 1, Len(r3))) # <<>> THEN NoMidi
      ELSE LET oct  == IF neg THEN -NatValue(SubSeq(r3, 1, d))
                       ELSE NatValue(SubSeq(r3, 1, d))
           IN  MidiInRange(Semitones(letter) + alt + 12 * (oct + 1))

NoteMidi(fullNote) ==
  IF fullNote = <<>> \/ ~IsRootLetter(fullNote[1]) THEN NoMidi
  ELSE IF Len(fullNote) = 2 /\ IsDigit(fullNote[2])
  THEN MidiInRange(Semitones(UpperOf(fullNote[1]))
                     + 12 * (DigitValue(fullNote[2]) + 1))
  ELSE IF Len(fullNote) = 3 /\ fullNote[2] \in {"#", "b"} /\ IsDigit(fullNote[3])
  THEN MidiInRange(Semitones(UpperOf(fullNote[1])) + Alteration(fullNote[2], 1)
                     + 12 * (DigitValue(fullNote[3]) + 1))
  ELSE IF Len(fullNote) >= 2 /\ fullNote[2] \in {"#", "b", "x"}
  THEN OctaveMidi(UpperOf(fullNote[1]),
                  Alteration(fullNote[2], RunLength(Tail(fullNote), fullNote[2])),
                  SubSeq(fullNote, 2 + RunLength(Tail(fullNote), fullNote[2]),
                         Len(fullNote)))
  ELSE OctaveMidi(UpperOf(fullNote[1]), 0, Tail(fullNote))

\* Note.midi(fullNote) || 60
MidiOr60(midi) == IF midi = NoMidi \/ midi = 0 THEN 60 ELSE midi

noteToStaffNote(noteName, octave) ==
  LET fullNote == IF IncludesText(noteName, IntText(octave)) THEN noteName
                  ELSE noteName \o IntText(octave)
  IN  [pitch      |-> fullNote,
       midiNote   |-> MidiOr60(NoteMidi(fullNote)),
       accidental |-> IF includes(noteName, "#") THEN "sharp"
                      ELSE IF includes(noteName, "b") THEN "flat"
                      ELSE "none"]

\* the .replace chain and .trim() of the print resolver: (easy), (barre),
\* ' major', ' minor'
PrintCleanName(name) ==
  trim(ReplaceSuffixWord(ReplaceSuffixWord(
         StripAnnotation(StripAnnotation(
           name, <<"(", "e", "a", "s", "y", ")">>),
           <<"(", "b", "a", "r", "r", "e", ")">>),
         <<"m", "a", "j", "o", "r">>, <<>>),
         <<"m", "i", "n", "o", "r">>, <<"m">>))

\* getChordNotes run against the lookup behaviour l; a throw inside the try
\* block ends in the catch, which returns []
getChordNotesWith(l, name) ==
  IF Nullish(name) \/ name = <<>> \/ trim(name) = <<>> \/ name = Dash
  THEN <<>>
  ELSE
    LET cleanName == PrintCleanName(name)
        first == ChordGet(l, cleanName)
        root  == RootOf(cleanName)
    IN  IF first = Thrown THEN <<>>
        ELSE IF first # <<>> \/ root = NoMatch
        THEN [i \in 1..Len(FirstN(first, 3)) |-> noteToStaffNote(first[i], 4)]
        ELSE
          LET notes == ChordGet(l, root)
          IN  IF notes = Thrown THEN <<>>
              ELSE IF notes = <<>> THEN << noteToStaffNote(root, 4) >>
              ELSE [i \in 1..Len(FirstN(notes, 3)) |-> noteToStaffNote(notes[i], 4)]

\* the resolver as generateNotesHtml calls it, against the library's table
getChordNotes(name) == getChordNotesWith(LibTonal, name)

\* Math.floor(midiNote / 12) - 1 and midiNote % 12 ; midiNote >= 0
staffPositions(noteInOctave) ==
  CASE noteInOctave = 0 -> 0 [] noteInOctave = 1 -> 0
    [] noteInOctave = 2 -> 1 [] noteInOctave = 3 -> 1
    [] noteInOctave = 4 -> 2
    [] noteInOctave = 5 -> 3 [] noteInOctave = 6 -> 3
    [] noteInOctave = 7 -> 4 [] noteInOctave = 8 -> 4
    [] noteInOctave = 9 -> 5 [] noteInOctave = 10 -> 5
    [] noteInOctave = 11 -> 6

RMax(x, y) == IF RLess(x, y) THEN y ELSE x
RMin(x, y) == IF RLess(y, x) THEN y ELSE x

StepsFromE4(midiNote) ==
  LET noteInOctave == midiNote % 12
      octave       == (midiNote \div 12) - 1
  IN  (staffPositions(noteInOctave) - 2) + ((octave - 4) * 7)

getNoteYPosition(midiNote, staffHeight) ==
  LET lineSpacing == RDiv(staffHeight, Num(4))
      bottomLineY == RSub(staffHeight, Num(2))
      yPosition   == RSub(bottomLineY,
                          RMul(Num(StepsFromE4(midiNote)),
                               RDiv(lineSpacing, Num(2))))
  IN  RMax(Num(-10), RMin(RAdd(staffHeight, Num(10)), yPosition))

\* ------------------------------------------------------------------------
\* SVG elements of the print path
\* ------------------------------------------------------------------------
\* beat is the index of the beat that produced the element, -1 for none
Elem(tag, x1, y1, x2, y2, text, beat) ==
  [tag |-> tag, x1 |-> x1, y1 |-> y1, x2 |-> x2, y2 |-> y2,
   text |-> text, beat |-> beat]

RECURSIVE Flatten(_)
Flatten(ss) == IF ss = <<>> THEN <<>> ELSE Head(ss) \o Flatten(Tail(ss))

NoSvg == [svg |-> FALSE, elements |-> <<>>]     \* the function returned ''

\* ------------------------------------------------------------------------
\* generateNotesHtml (printService/index.ts)
\* ------------------------------------------------------------------------
NotesOfBeat(chord, beatIndex, measureWidth, staffHeight) ==
  IF Nullish(chord) \/ chord = <<>> \/ trim(chord) = <<>> THEN <<>>
  ELSE
    LET notes      == FirstN(getChordNotes(chord), 3)
        beatWidth  == RDiv(measureWidth, Num(4))
        noteRadius == RMin(RDiv(staffHeight, Num(12)), Num(5))
        centerX    == RAdd(RMul(beatWidth, Num(beatIndex)), RDiv(beatWidth, Num(2)))
        yOf(note)  == RAdd(getNoteYPosition(note.midiNote,
                                            RMul(staffHeight, <<3, 4>>)),
                           RMul(staffHeight, <<1, 10>>))
        xOf(i)     == RAdd(centerX, RMul(Num(i - 2), RMul(noteRadius, <<1, 2>>)))
        head(i)    ==
          (IF notes[i].accidental # "none"
           THEN << Elem("text",
                        RSub(xOf(i), RMul(noteRadius, <<9, 5>>)),
                        RAdd(yOf(notes[i]), Num(2)),
                        RSub(xOf(i), RMul(noteRadius, <<9, 5>>)),
                        RAdd(yOf(notes[i]), Num(2)),
                        IF notes[i].accidental = "sharp" THEN "#" ELSE FlatSign,
                        beatIndex) >>
           ELSE <<>>)
          \o << Elem("ellipse", xOf(i), yOf(notes[i]), xOf(i), yOf(notes[i]),
                     "", beatIndex) >>
        TopY[i \in 1..Len(notes)] ==
          IF i = 1 THEN yOf(notes[1]) ELSE RMin(TopY[i - 1], yOf(notes[i]))
        topNoteY   == TopY[Len(notes)]
        stemX      == RSub(RAdd(centerX, noteRadius), <<1, 2>>)
    IN  IF notes = <<>> THEN <<>>
        ELSE Flatten([i \in 1..Len(notes) |-> head(i)])
             \o << Elem("line", stemX, topNoteY, stemX,
                        RSub(topNoteY, RMul(staffHeight, <<7, 20>>)),
                        "", beatIndex) >>

\* a staff renderer that places the drawn beats one after the other
generateNotesHtmlPacked(bc, measureWidth, staffHeight) ==
  LET drawn     == SelectSeq(bc, LAMBDA c : c # <<>> /\ trim(c) # <<>>)
      notesHtml == Flatten([i \in 1..Len(drawn) |->
                      NotesOfBeat(drawn[i], i - 1, measureWidth, staffHeight)])
  IN  IF notesHtml = <<>> THEN NoSvg
      ELSE [svg |-> TRUE, elements |-> notesHtml]

generateNotesHtml(bc, measureWidth, staffHeight) ==
  LET notesHtml == Flatten([i \in 1..Len(bc) |->
                      NotesOfBeat(bc[i], i - 1, measureWidth, staffHeight)])
  IN  IF notesHtml = <<>> THEN NoSvg
      ELSE [svg |-> TRUE, elements |-> notesHtml]

\* ------------------------------------------------------------------------
\* generateTablatureHtml (printService/index.ts)
\* ------------------------------------------------------------------------
LabelWidth == 12
stringLabels == <<"e", "B", "G", "D", "A", "E">>

FretsOfBeat(name, data, beatIndex, measureWidth, tabHeight) ==
  IF IsEmptyBeat(name) \/ FindChord(data, name) = NoFingering
  THEN <<>>
  ELSE
    LET contentWidth     == RSub(measureWidth, Num(LabelWidth))
        stringSpacing    == RDiv(tabHeight, Num(6))
        beatX            == RAdd(RAdd(Num(LabelWidth),
                                      RMul(RDiv(contentWidth, Num(4)), Num(beatIndex))),
                                 RDiv(RDiv(contentWidth, Num(4)), Num(2)))
        displayFingering == reverse(FindChord(data, name))
        y(stringIndex)   == RAdd(RAdd(RMul(stringSpacing, Num(stringIndex)),
                                      RDiv(stringSpacing, Num(2))), Num(3))
    IN  Flatten([k \in 1..Len(displayFingering) |->
          << Elem("rect", RSub(beatX, Num(5)), RSub(y(k - 1), Num(8)),
                  RAdd(RSub(beatX, Num(5)), Num(10)),
                  RAdd(RSub(y(k - 1), Num(8)), Num(10)), "", beatIndex),
             Elem("text", beatX, y(k - 1), beatX, y(k - 1),
                  displayValue(displayFingering[k]), beatIndex) >>])

generateTablatureHtml(bc, data, measureWidth, tabHeight) ==
  LET hasChords     == \E i \in 1..Len(bc) : ~IsEmptyBeat(bc[i])
      stringSpacing == RDiv(tabHeight, Num(6))
      lineY(index)  == RAdd(RMul(stringSpacing, Num(index)),
                            RDiv(stringSpacing, Num(2)))
      stringLines   == [k \in 1..6 |->
                          Elem("line", Num(LabelWidth), lineY(k - 1),
                               measureWidth, lineY(k - 1), "", -1)]
      labels        == [k \in 1..6 |->
                          Elem("text", Num(2), RAdd(lineY(k - 1), Num(3)),
                               Num(2), RAdd(lineY(k - 1), Num(3)),
                               stringLabels[k], -1)]
      fretNumbers   == Flatten([i \in 1..Len(bc) |->
                          FretsOfBeat(bc[i], data, i - 1, measureWidth, tabHeight)])
  IN  IF ~hasChords THEN NoSvg
      ELSE [svg |-> TRUE, elements |-> stringLines \o labels \o fretNumbers]

\* ------------------------------------------------------------------------
\* generatePageHtml, row-spanning version (printService/htmlTemplates.ts)
\* ------------------------------------------------------------------------
RowWidth == 800          \* generateNotesHtml(rowBeatChords, 800, 85)
RowStaffHeight == 85
RowTabHeight == 65       \* generateTablatureHtml(rowBeatChords, chordsData, 800, 65)

EscapeChar(c) ==
  CASE c = "&"  -> <<"&", "a", "m", "p", ";">>
    [] c = "<"  -> <<"&", "l", "t", ";">>
    [] c = ">"  -> <<"&", "g", "t", ";">>
    [] c = "\"" -> <<"&", "q", "u", "o", "t", ";">>
    [] c = "'"  -> <<"&", "#", "0", "3", "9", ";">>
    [] OTHER    -> <<c>>

escapeHtml(text) == Flatten([i \in 1..Len(text) |-> EscapeChar(text[i])])

\* bar barIndex (0-based) of the page
\* page.barLyrics[barIndex] || '' ; reading an index of a key the page does
\* not have throws
BarLyrics(pg, barIndex) ==
  IF pg.barLyrics = Undefined THEN Thrown
  ELSE IF barIndex + 1 \in 1..Len(pg.barLyrics)
          /\ ~Nullish(pg.barLyrics[barIndex + 1])
  THEN pg.barLyrics[barIndex + 1] ELSE <<>>

\* page.barBeatChords[barIndex] || ['', '', '', '']
BarBeatChords(pg, barIndex) ==
  IF pg.barBeatChords = Undefined THEN Thrown
  ELSE IF barIndex + 1 \in 1..Len(pg.barBeatChords)
          /\ ~Nullish(pg.barBeatChords[barIndex + 1])
  THEN pg.barBeatChords[barIndex + 1] ELSE <<Empty, Empty, Empty, Empty>>

\* does generatePageHtml throw on the page: it reads both keys for bar 0
PageThrows(pg) == pg.barLyrics = Undefined \/ pg.barBeatChords = Undefined

BarHasChords(bc) ==
  \E i \in 1..Len(bc) : ~Nullish(bc[i]) /\ bc[i] # <<>> /\ trim(bc[i]) # <<>>
BarHasLyrics(lyrics) == trim(lyrics) # <<>>
BarIsEmpty(pg, barIndex) ==
  ~BarHasChords(BarBeatChords(pg, barIndex)) /\ ~BarHasLyrics(BarLyrics(pg, barIndex))

RowBeatChords(pg, rowIndex) ==
  Flatten([colIndex \in 1..4 |-> BarBeatChords(pg, rowIndex * 4 + colIndex - 1)])

RowHasContent(pg, rowIndex) ==
  \E colIndex \in 0..3 : ~BarIsEmpty(pg, rowIndex * 4 + colIndex)

ChordBox(chord) ==
  LET isEmpty == Nullish(chord) \/ chord = <<>> \/ trim(chord) = <<>>
  IN  [empty |-> isEmpty, text |-> IF isEmpty THEN <<>> ELSE escapeHtml(chord)]

BarHtml(pg, barIndex) ==
  [emptyBar   |-> BarIsEmpty(pg, barIndex),
   lyrics     |-> escapeHtml(BarLyrics(pg, barIndex)),
   chordBoxes |-> [i \in 1..Len(BarBeatChords(pg, barIndex)) |->
                     ChordBox(BarBeatChords(pg, barIndex)[i])]]

RowHtml(pg, rowIndex, data, opts) ==
  [tablatureDiv |-> opts.includeTablature,
   tabSvg       |-> IF opts.includeTablature /\ RowHasContent(pg, rowIndex)
                    THEN generateTablatureHtml(RowBeatChords(pg, rowIndex), data,
                                               Num(RowWidth), Num(RowTabHeight))
                    ELSE NoSvg,
   bars         |-> [colIndex \in 1..4 |-> BarHtml(pg, rowIndex * 4 + colIndex - 1)],
   staffDiv     |-> opts.includeNotation,
   notesSvg     |-> IF opts.includeNotation /\ RowHasContent(pg, rowIndex)
                    THEN generateNotesHtml(RowBeatChords(pg, rowIndex),
                                           Num(RowWidth), Num(RowStaffHeight))
                    ELSE NoSvg]

generatePageHtml(pg, pageNumber, totalPages, data, opts) ==
  IF PageThrows(pg) THEN Thrown
  ELSE
  [done      |-> TRUE,
   pageBreak |-> pageNumber < totalPages,
   header    |-> <<pageNumber, totalPages>>,
   rows      |-> [r \in 1..4 |-> RowHtml(pg, r - 1, data, opts)]]

\* one invocation of a renderer: which one, and its arguments
Call(renderer, bc, measureWidth, height) ==
  [renderer |-> renderer, chords |-> bc, width |-> measureWidth,
   height |-> height]

\* the invocations the row-spanning version makes for one row: the staff
\* renderer is called before the tablature renderer
RowCalls(pg, rowIndex, opts) ==
  (IF opts.includeNotation /\ RowHasContent(pg, rowIndex)
   THEN << Call("notes", RowBeatChords(pg, rowIndex), RowWidth, RowStaffHeight) >>
   ELSE <<>>)
  \o (IF opts.includeTablature /\ RowHasContent(pg, rowIndex)
      THEN << Call("tab", RowBeatChords(pg, rowIndex), RowWidth, RowTabHeight) >>
      ELSE <<>>)

PageCalls(pg, opts) == Flatten([r \in 1..4 |-> RowCalls(pg, r - 1, opts)])

\* ------------------------------------------------------------------------
\* generatePageHtml, per-bar version (printService/htmlTemplates.ts, the
\* second declaration of the file)
\* ------------------------------------------------------------------------
BarWidth == 150          \* generateNotesHtml(beatChords, 150, 50)
BarStaffHeight == 50
BarTabHeight == 35       \* generateTablatureHtml(beatChords, chordsData, 150, 35)

\* an empty chord box of this version shows a dash
ChordBoxPerBar(chord) ==
  LET isEmpty == Nullish(chord) \/ chord = <<>> \/ trim(chord) = <<>>
  IN  [empty |-> isEmpty, text |-> IF isEmpty THEN <<"-">> ELSE escapeHtml(chord)]

BarHtmlPerBar(pg, barIndex, data, opts) ==
  LET bc        == BarBeatChords(pg, barIndex)
      hasChords == BarHasChords(bc)
  IN  [emptyBar     |-> BarIsEmpty(pg, barIndex),
       lyrics       |-> escapeHtml(BarLyrics(pg, barIndex)),
       chordBoxes   |-> [i \in 1..Len(bc) |-> ChordBoxPerBar(bc[i])],
       staffLines   |-> opts.includeNotation,
       notesSvg     |-> IF opts.includeNotation /\ hasChords
                        THEN generateNotesHtml(bc, Num(BarWidth), Num(BarStaffHeight))
                        ELSE NoSvg,
       tablatureDiv |-> opts.includeTablature,
       tabSvg       |-> IF opts.includeTablature /\ hasChords
                        THEN generateTablatureHtml(bc, data, Num(BarWidth),
                                                   Num(BarTabHeight))
                        ELSE NoSvg]

generatePageHtmlPerBar(pg, pageNumber, totalPages, data, opts) ==
  IF PageThrows(pg) THEN Thrown
  ELSE
  [done      |-> TRUE,
   pageBreak |-> pageNumber < totalPages,
   header    |-> <<pageNumber, totalPages>>,
   rows      |-> [r \in 1..4 |->
                    [bars |-> [colIndex \in 1..4 |->
                        BarHtmlPerBar(pg, (r - 1) * 4 + colIndex - 1, data, opts)]]]]

\* the invocations the per-bar version makes for one bar
BarCalls(pg, barIndex, opts) ==
  LET bc == BarBeatChords(pg, barIndex)
  IN  (IF opts.includeNotation /\ BarHasChords(bc)
       THEN << Call("notes", bc, BarWidth, BarStaffHeight) >> ELSE <<>>)
      \o (IF opts.includeTablature /\ BarHasChords(bc)
          THEN << Call("tab", bc, BarWidth, BarTabHeight) >> ELSE <<>>)

PageCallsPerBar(pg, opts) ==
  Flatten([b \in 1..16 |-> BarCalls(pg, b - 1, opts)])

\* ------------------------------------------------------------------------
\* Editor screen (app/(tabs)/files.tsx) and composition store
\* ------------------------------------------------------------------------
NoComposition == 0                  \* currentComposition: null
\* the ids of compositions: two the store holds at the start and one for a
\* composition made later
CompIds == {1, 2, 3}

\* the values of composition.notes
\* the store holds no composition of the id
Deleted == [kind |-> "deleted"]

DocNone == [kind |-> "undefined"]                  \* no notes
DocText == [kind |-> "text"]                       \* text that is not JSON
DocPages(pages) == [kind |-> "pages", pages |-> pages]
DocSingle(pg) ==
  [kind |-> "single", barLyrics |-> pg.barLyrics, barBeatChords |-> pg.barBeatChords]
DocBarChords(chords) == [kind |-> "barChords", barChords |-> chords]

\* JSON.stringify of an array of strings: a hole is written as null
JsonArray(a) == [i \in 1..Len(a) |-> IF a[i] = Hole THEN JsonNull ELSE a[i]]

\* a key whose value is undefined is not written
JsonPage(pg) ==
  [barLyrics     |-> IF pg.barLyrics = Undefined THEN Undefined
                     ELSE JsonArray(pg.barLyrics),
   barBeatChords |-> IF pg.barBeatChords = Undefined THEN Undefined
                     ELSE [r \in 1..Len(pg.barBeatChords) |->
                             JsonArray(pg.barBeatChords[r])]]

\* JSON.stringify({ pages: allPages })
JsonStringify(pages) == DocPages([i \in 1..Len(pages) |-> JsonPage(pages[i])])

\* Array(16).fill('') ; Array(16).fill(null).map(() => Array(4).fill(''))
NewPage == [barLyrics     |-> [i \in 1..16 |-> <<>>],
            barBeatChords |-> [i \in 1..16 |-> [j \in 1..4 |-> <<>>]]]

\* a[i] = v on a copy of the array a (i is 0-based): an index past the end
\* lengthens the array and leaves holes
SetAt(a, i, v) ==
  IF i < Len(a) THEN [a EXCEPT ![i + 1] = v]
  ELSE a \o [k \in 1..(i - Len(a)) |-> Hole] \o <<v>>

\* allPages[currentPage]?.barLyrics || Array(16).fill('')
CurrentBarLyrics(pages, cp) ==
  IF cp + 1 \in 1..Len(pages) /\ pages[cp + 1].barLyrics # Undefined
  THEN pages[cp + 1].barLyrics ELSE NewPage.barLyrics

\* allPages[currentPage]?.barBeatChords || ...
CurrentBarBeatChords(pages, cp) ==
  IF cp + 1 \in 1..Len(pages) /\ pages[cp + 1].barBeatChords # Undefined
  THEN pages[cp + 1].barBeatChords
  ELSE NewPage.barBeatChords

\* { ...newPages[currentPage] } : the keys of the page, none when the index
\* is past the end
SpreadPage(pages, cp) ==
  IF cp + 1 \in 1..Len(pages) THEN pages[cp + 1]
  ELSE [barLyrics |-> Undefined, barBeatChords |-> Undefined]

\* setBarLyrics : the new allPages
setBarLyrics(pages, cp, newLyrics) ==
  SetAt(pages, cp, [SpreadPage(pages, cp) EXCEPT !.barLyrics = newLyrics])

\* setBarBeatChords : the new allPages
setBarBeatChords(pages, cp, newChords) ==
  SetAt(pages, cp, [SpreadPage(pages, cp) EXCEPT !.barBeatChords = newChords])

\* updateComposition(updates) of the store, on the compositions array: the
\* updates go to the current composition (if there is one), and the entry
\* of the array with its id becomes that object (if (index !== -1)); notes
\* are the notes the current composition holds after the update
updateComposition(comps, id, notes) ==
  IF id = NoComposition THEN comps
  ELSE IF comps[id] = Deleted THEN comps
  ELSE [comps EXCEPT ![id] = notes]

\* mutant: the new page replaces the pages
AddedPageAlone(pages) == <<NewPage>>

\* [...allPages, { barLyrics: ..., barBeatChords: ... }]
AddedPage(pages) == Append(pages, NewPage)

\* the pages the load effect hands to setAllPages for the notes doc, or
\* <<>> when it sets nothing (no notes, a parse error, no known key)
LoadedPages(doc) ==
  CASE doc.kind = "pages"     -> doc.pages
    [] doc.kind = "single"    -> << [barLyrics     |-> doc.barLyrics,
                                     barBeatChords |-> doc.barBeatChords] >>
    [] doc.kind = "barChords" ->
         << [barLyrics     |-> NewPage.barLyrics,
             barBeatChords |-> [i \in 1..Len(doc.barChords) |->
                                  <<doc.barChords[i], <<>>, <<>>, <<>> >>]] >>
    [] OTHER                  -> <<>>

\* page.barBeatChords.forEach(bar => bar.forEach(...)) over the pages (and
\* the for...of loops of getUsedChords): a page without the key and a bar
\* that is null throw
ChordsThrow(pages) ==
  \E p \in 1..Len(pages) :
    \/ pages[p].barBeatChords = Undefined
    \/ \E b \in 1..Len(pages[p].barBeatChords) : Nullish(pages[p].barBeatChords[b])

\* the editor renders its grid: a composition is selected, the chord
\* reference of page 0 reads the bars of every page, and the bar grid reads
\* barBeatChords[barIndex][beatIndex] for the 16 bars, which throws when
\* the current page has fewer rows or a row that is null or a hole
RenderOk(comp, pages, cp) ==
  /\ comp # NoComposition
  /\ cp = 0 => ~ChordsThrow(pages)
  /\ Len(CurrentBarBeatChords(pages, cp)) >= 16
  /\ \A b \in 1..16 : ~Nullish(CurrentBarBeatChords(pages, cp)[b])

Op(name, bar, beat, text) == [op |-> name, bar |-> bar, beat |-> beat, text |-> text]
NoOp == Op("none", -1, -1, <<>>)

\* the editor shows no composition
ScreenIdle ==
  /\ compositions = [id \in CompIds |-> DocNone]
  /\ currentComposition = NoComposition
  /\ currentNotes = DocNone
  /\ allPages = <<NewPage>>
  /\ currentPage = 0
  /\ lastOp = NoOp
  /\ ops = 0

\* ------------------------------------------------------------------------
\* Composition store (store/compositionStore.ts): the state and what each
\* operation makes of it
\* ------------------------------------------------------------------------
Null == [id |-> NoComposition]       \* currentComposition: null

\* a section of a composition
Section(id, label, order) == [id |-> id, label |-> label, order |-> order]

\* the sections of createNewComposition
DefaultSections ==
  << Section("intro", "Intro", 0), Section("verse1", "Verse 1", 1),
     Section("chorus", "Chorus", 2) >>

\* a composition of the store: its id and its content, with the tempo of
\* createDefaultGlobalSettings and the sections of createNewComposition
Comp(id, notes) ==
  [id |-> id, notes |-> notes, tempo |-> 120, sections |-> DefaultSections]

\* compositions.findIndex(c => c.id === id), 1-based; 0 for -1
findIndex(list, id) ==
  IF \E k \in 1..Len(list) : list[k].id = id
  THEN CHOOSE k \in 1..Len(list) :
         /\ list[k].id = id
         /\ \A h \in 1..(k - 1) : list[h].id # id
  ELSE 0

\* replace the entry of that id, or push
PutComposition(list, c) ==
  IF findIndex(list, c.id) > 0
  THEN [list EXCEPT ![findIndex(list, c.id)] = c]
  ELSE Append(list, c)

createComposition(st, id) ==
  [compositions       |-> Append(st.compositions, Comp(id, DocNone)),
   currentComposition |-> Comp(id, DocNone)]

addComposition(st, c) ==
  [st EXCEPT !.compositions = PutComposition(st.compositions, c)]

setCurrentComposition(st, id) ==
  IF findIndex(st.compositions, id) > 0
  THEN [st EXCEPT !.currentComposition =
                     st.compositions[findIndex(st.compositions, id)]]
  ELSE st

loadComposition(st, id) == setCurrentComposition(st, id)

\* updateComposition({ notes })
storeUpdateComposition(st, notes) ==
  IF st.currentComposition = Null THEN st
  ELSE LET updated == [st.currentComposition EXCEPT !.notes = notes]
           index   == findIndex(st.compositions, updated.id)
       IN  [compositions       |-> IF index # 0
                                   THEN [st.compositions EXCEPT ![index] = updated]
                                   ELSE st.compositions,
            currentComposition |-> updated]

\* .map((s, index) => ({ ...s, order: index }))
Renumber(sections) ==
  [i \in 1..Len(sections) |-> [sections[i] EXCEPT !.order = i - 1]]

\* sections.find(s => s.id === sectionId), 1-based; 0 for undefined
findSection(sections, sectionId) ==
  IF \E k \in 1..Len(sections) : sections[k].id = sectionId
  THEN CHOOSE k \in 1..Len(sections) :
         /\ sections[k].id = sectionId
         /\ \A h \in 1..(k - 1) : sections[h].id # sectionId
  ELSE 0

\* the five operations below change currentComposition only: the entry of
\* the list is not replaced
updateGlobalSettings(st, tempo) ==
  IF st.currentComposition = Null THEN st
  ELSE [st EXCEPT !.currentComposition.tempo = tempo]

addSection(st, id, label) ==
  IF st.currentComposition = Null THEN st
  ELSE [st EXCEPT !.currentComposition.sections =
                     Append(@, Section(id, label, Len(@)))]

updateSection(st, sectionId, label) ==
  IF st.currentComposition = Null THEN st
  ELSE LET index == findSection(st.currentComposition.sections, sectionId)
       IN  IF index = 0 THEN st
           ELSE [st EXCEPT !.currentComposition.sections[index].label = label]

deleteSection(st, sectionId) ==
  IF st.currentComposition = Null THEN st
  ELSE [st EXCEPT !.currentComposition.sections =
                     Renumber(SelectSeq(@, LAMBDA sec : sec.id # sectionId))]

reorderSections(st, sectionIds) ==
  IF st.currentComposition = Null THEN st
  ELSE LET sections == st.currentComposition.sections
           found    == SelectSeq(sectionIds,
                                 LAMBDA id : findSection(sections, id) # 0)
       IN  [st EXCEPT !.currentComposition.sections =
              Renumber([i \in 1..Len(found) |->
                          sections[findSection(sections, found[i])]])]

deleteComposition(st, id) ==
  [compositions       |-> SelectSeq(st.compositions, LAMBDA c : c.id # id),
   currentComposition |-> IF st.currentComposition.id = id THEN Null
                          ELSE st.currentComposition]

\* importComposition : the composition the storage service read
importComposition(st, c) ==
  [st EXCEPT !.compositions = PutComposition(st.compositions, c)]

RECURSIVE importCompositions(_, _)
importCompositions(st, results) ==
  IF results = <<>> THEN st
  ELSE importCompositions(importComposition(st, Head(results)), Tail(results))

\* loadFromCache : the list the cache service returned
loadFromCache(st, cached) == [st EXCEPT !.compositions = cached]

\* the functions of the store that wait for a service before their set
\* runs; initializeStore waits inside loadFromCache
AsyncFunctions == {"importComposition", "importCompositions", "loadFromCache"}

NoneAwaiting == [fn \in AsyncFunctions |-> 0]

\* the number of calls that wait
RECURSIVE CountAwaiting(_, _)
CountAwaiting(waits, fns) ==
  IF fns = {} THEN 0
  ELSE LET fn == CHOOSE f \in fns : TRUE
       IN  waits[fn] + CountAwaiting(waits, fns \ {fn})

\* the store before its first operation
StoreIdle ==
  /\ state = [compositions |-> <<>>, currentComposition |-> Null]
  /\ edits = 0
  /\ awaiting = NoneAwaiting

\* ------------------------------------------------------------------------
\* generatePrintHtml (printService/htmlTemplates.ts) and getUsedChords
\* (printService/chordSvgGenerator.ts)
\* ------------------------------------------------------------------------

\* the operand of || and of ?: counts as false
\* a number, as against the string of its digits; what a template writes
\* for a value
JsNumber(digits) == <<"(number)">> \o digits
TemplateText(v) == IF v # <<>> /\ v[1] = "(number)" THEN Tail(v) ELSE v

Falsy(v) == Nullish(v) \/ v = <<>> \/ v = JsNumber(<<"0">>)

\* globalSettings without timeSignature
NoTimeSignature == [beats |-> Undefined, beatValue |-> Undefined]

\* JSON.parse(composition.notes).pages || [] ; [] without notes and when
\* JSON.parse throws
ParsedPages(doc) == IF doc.kind = "pages" THEN doc.pages ELSE <<>>

\* the chord names of the pages: page after page, bar after bar, beat
\* after beat
AllBeatNames(pages) ==
  Flatten([p \in 1..Len(pages) |-> Flatten(pages[p].barBeatChords)])

\* usedChordNames.add(chord) for every name of the list: a Set keeps the
\* order of first insertion
RECURSIVE AddNames(_, _)
AddNames(used, names) ==
  IF names = <<>> THEN used
  ELSE LET chord == Head(names)
           seen  == \E k \in 1..Len(used) : used[k] = chord
       IN  AddNames(IF seen THEN used ELSE Append(used, chord), Tail(names))

\* mutant: only the first page is searched
FirstPageOnly(pages) == IF pages = <<>> THEN <<>> ELSE <<pages[1]>>

SearchedPages(pages) == pages

\* .map(name => chordsData.find(c => c.name === name)).filter(defined)
FoundChords(names, data) ==
  LET found == SelectSeq(names, LAMBDA n : FindChord(data, n) # NoFingering)
  IN  [i \in 1..Len(found) |->
         [name |-> found[i], fingering |-> FindChord(data, found[i])]]

getUsedChords(pages, data) ==
  IF ChordsThrow(pages) THEN Thrown
  ELSE
  FoundChords(
    AddNames(<<>>,
             SelectSeq(AllBeatNames(SearchedPages(pages)),
                       LAMBDA chord : chord # <<>> /\ chord # JsonNull
                                        /\ trim(chord) # <<>>)),
    data)

\* the chord reference section of the editor, shown when currentPage === 0
\* (files.tsx): if (chord) usedChordNames.add(chord)
uniqueChords(pages, data) ==
  IF ChordsThrow(pages) THEN Thrown
  ELSE
  FoundChords(
    AddNames(<<>>,
             SelectSeq(AllBeatNames(pages),
                       LAMBDA chord : chord # <<>> /\ chord # JsonNull)),
    data)

\* generateChordReferenceHtml : one diagram per chord, or '' without chords
NoReference == [section |-> FALSE, placeholder |-> FALSE, diagrams |-> <<>>]
ReferencePlaceholder ==
  [section |-> FALSE, placeholder |-> TRUE, diagrams |-> <<>>]

generateChordReferenceHtml(chords) ==
  IF Len(chords) = 0 THEN NoReference
  ELSE [section |-> TRUE, placeholder |-> FALSE,
        diagrams |-> [i \in 1..Len(chords) |-> chords[i].name]]

\* generateHeaderHtml : the texts put between the tags of the header; a
\* line that is left out is Undefined
generateHeaderHtml(c) ==
  LET settings      == c.globalSettings
      timeSignature == IF settings.timeSignature # NoTimeSignature
                       THEN TemplateText(settings.timeSignature.beats) \o <<"/">>
                              \o TemplateText(settings.timeSignature.beatValue)
                       ELSE <<"4", "/", "4">>
  IN  [title  |-> escapeHtml(c.title),
       artist |-> IF ~Falsy(c.artist) THEN escapeHtml(c.artist) ELSE Undefined,
       key    |-> escapeHtml(IF Falsy(settings.key) THEN <<"C">> ELSE settings.key),
       tempo  |-> IF Falsy(settings.tempo) THEN <<"1", "2", "0">>
                  ELSE TemplateText(settings.tempo),
       time   |-> timeSignature,
       capo   |-> IF ~Falsy(settings.capo) THEN TemplateText(settings.capo)
                  ELSE Undefined]

generatePrintHtml(c, data, opts) ==
  LET pages == ParsedPages(c.notes)
  IN  IF ChordsThrow(pages) \/ \E i \in 1..Len(pages) : PageThrows(pages[i])
      THEN Thrown
      ELSE
      [done           |-> TRUE,
       title          |-> escapeHtml(c.title),
       header         |-> generateHeaderHtml(c),
       chordReference |-> IF opts.includeChordDiagrams
                          THEN generateChordReferenceHtml(getUsedChords(pages, data))
                          ELSE ReferencePlaceholder,
       pages          |-> [i \in 1..Len(pages) |->
                             generatePageHtml(pages[i], i, Len(pages), data, opts)]]

\* no document is being printed
DefaultSettings ==
  [key |-> <<"C">>, tempo |-> JsNumber(<<"1", "2", "0">>), capo |-> Undefined,
   timeSignature |-> [beats |-> JsNumber(<<"4">>), beatValue |-> JsNumber(<<"4">>)]]

PrintIdle ==
  /\ composition = [title |-> <<>>, artist |-> Undefined,
                    globalSettings |-> DefaultSettings, notes |-> DocNone]
  /\ printOptions = [includeChordDiagrams |-> TRUE, includeTablature |-> TRUE,
                     includeNotation |-> TRUE]
  /\ document = NotRendered

\* ------------------------------------------------------------------------
\* Inputs
\* ------------------------------------------------------------------------
EmptyBar == <<Empty, Empty, Empty, Empty>>
EmptyPage == [barLyrics     |-> [i \in 1..16 |-> <<>>],
              barBeatChords |-> [i \in 1..16 |-> EmptyBar]]

AllOptions == [includeNotation |-> TRUE, includeTablature |-> TRUE]

\* chord names a beat of a measure is drawn from
MeasureChords == {Empty, Dash, ChC, ChH}

\* prop widths, the degenerate ones included
Widths == {Num(-20), Num(0), Num(20), Num(300), Num(400), Num(800)}
Scales == {<<3, 4>>, Num(1)}
DefaultWidth == Num(400)
DefaultScale == <<3, 4>>     \* scale = 0.75

\* a row of n measures in which measure a (0-based) holds the 4 chords p
RowWithMeasure(n, a, p) ==
  [i \in 1..(4 * n) |-> IF (i - 1) \div 4 = a THEN p[((i - 1) % 4) + 1] ELSE Empty]

\* a row of n measures holding the single chord c at beat k (0-based)
RowWithChord(n, k, c) == [i \in 1..(4 * n) |-> IF i - 1 = k THEN c ELSE Empty]

\* the chord the parent puts on the first beat when it re-renders the row
ChangedChords == {ChG}

\* the props a render of StaffNotes captured; NoProps before any drawing
NoProps == [none |-> TRUE]
CurrentProps == [beatChords |-> beatChords, width |-> width, scale |-> scale,
                 numMeasures |-> numMeasures]

\* Platform.OS
Platforms == {"web", "ios"}

\* StaffNotes just mounted: the effect has not run, nothing waits, nothing drawn
NewStaffTask(platform) ==
  [platform |-> platform, mounted |-> TRUE, due |-> TRUE, pending |-> <<>>,
   drawn |-> NoProps, events |-> 0]

EditorIdle ==
  /\ staffOut = NotRendered
  /\ tabOut = NotRendered
  /\ staffTask = NewStaffTask("web")

\* the editor mounts on either platform
EditorMounted ==
  /\ staffOut = NotRendered
  /\ tabOut = NotRendered
  /\ \E platform \in Platforms : staffTask = NewStaffTask(platform)

PageIdle ==
  /\ pageOut = NotRendered
  /\ calls = <<>>

MeasurePatterns ==
  [1..4 -> MeasureChords]
    \cup { <<ChC, Blank, Blank, ChAm>>, <<Blank, ChC, Blank, Dash>>,
           <<ChAm, ChG, Blank, Blank>> }

\* every 4-beat content of the last measure, at the default width
InitContent ==
  /\ numMeasures \in 1..MaxMeasures
  /\ \E p \in MeasurePatterns :
       beatChords = RowWithMeasure(numMeasures, numMeasures - 1, p)
  /\ width = DefaultWidth
  /\ scale = DefaultScale

\* every width and measure count, one chord somewhere in the row
InitGeometry ==
  /\ numMeasures \in 0..MaxMeasures
  /\ \/ beatChords = [i \in 1..(4 * numMeasures) |-> Empty]
     \/ \E k \in 0..(4 * numMeasures - 1) :
          beatChords = RowWithChord(numMeasures, k, ChA)
  /\ width \in Widths
  /\ scale \in Scales

\* no chord name is being resolved
ResolverIdle ==
  /\ chordName = Empty
  /\ plainName = Empty
  /\ lib = LibTonal
  /\ editorNotes = NotRendered
  /\ printNotes = NotRendered

Init ==
  /\ InitContent \/ InitGeometry
  /\ EditorMounted
  /\ page = EmptyPage
  /\ options = AllOptions
  /\ PageIdle
  /\ ResolverIdle
  /\ ScreenIdle
  /\ PrintIdle
  /\ StoreIdle

\* pages of the print path: one bar holds 4 chords, one bar may hold a lyric
PageChords == {Empty, ChA}
PagePatterns ==
  [1..4 -> PageChords]
    \cup { <<ChG, Empty, ChA, Blank>>, <<Blank, Blank, Blank, Blank>>,
           <<ChC, ChAm, ChG, ChA>>, <<Dash, Dash, Dash, Dash>>,
           <<Dash, ChA, Dash, Empty>>, <<Dash, Empty, Blank, Empty>>,
           <<ChH, Empty, Empty, Empty>>, <<ChA, ChH, Empty, ChG>>,
           <<ChH, ChH, ChH, ChH>>, <<Empty, Empty, ChG, Empty>> }
ActiveBars == {0, 5, 10, 15}
LyricBars == {-1, 7}                 \* -1: no lyric on the page
Verse == <<"V", "e", "r", "s", "e">>

PageWith(a, p, l) ==
  [barLyrics     |-> [i \in 1..16 |-> IF i - 1 = l THEN Verse ELSE <<>>],
   barBeatChords |-> [i \in 1..16 |-> IF i - 1 = a THEN p ELSE EmptyBar]]

InitPage ==
  /\ \E a \in ActiveBars, p \in PagePatterns, l \in LyricBars :
       page = PageWith(a, p, l)
  /\ options \in [includeNotation : BOOLEAN, includeTablature : BOOLEAN]
  /\ PageIdle
  /\ beatChords = RowBeatChords(page, 0)
  /\ width = Num(RowWidth)
  /\ numMeasures = 4
  /\ scale = DefaultScale
  /\ EditorIdle
  /\ ResolverIdle
  /\ ScreenIdle
  /\ PrintIdle
  /\ StoreIdle

\* pages of the row composition: every row is empty, holds a lyric only,
\* or holds chords in its second bar
RowKinds == {"empty", "lyric", "chords"}

PageOfRows(kinds) ==
  [barLyrics     |-> [i \in 1..16 |->
                        IF kinds[((i - 1) \div 4) + 1] = "lyric" /\ (i - 1) % 4 = 0
                        THEN Verse ELSE <<>>],
   barBeatChords |-> [i \in 1..16 |->
                        IF kinds[((i - 1) \div 4) + 1] = "chords" /\ (i - 1) % 4 = 1
                        THEN <<ChG, Empty, ChA, Empty>> ELSE EmptyBar]]

InitCompose ==
  /\ \E kinds \in [1..4 -> RowKinds] : page = PageOfRows(kinds)
  /\ options \in [includeNotation : BOOLEAN, includeTablature : BOOLEAN]
  /\ PageIdle
  /\ beatChords = RowBeatChords(page, 0)
  /\ width = Num(RowWidth)
  /\ numMeasures = 4
  /\ scale = DefaultScale
  /\ EditorIdle
  /\ ResolverIdle
  /\ ScreenIdle
  /\ PrintIdle
  /\ StoreIdle

\* compositions handed to generatePrintHtml: as the store creates them, and
\* as an imported file may hold them (deserializeComposition checks id and
\* title only)
Song == <<"S", "o", "n", "g">>
Markup == <<"<", "b", ">", "&", "'", "\"">>
ImportedSettings ==
  [key |-> <<"<", "C", ">">>, tempo |-> <<"<", "b", ">">>, capo |-> <<"'", "3">>,
   timeSignature |-> [beats |-> <<"<", "4">>, beatValue |-> <<"4", "\"">>]]
BareSettings ==
  [key |-> <<>>, tempo |-> JsNumber(<<"0">>), capo |-> JsNumber(<<"0">>),
   timeSignature |-> NoTimeSignature]
\* an imported file that holds its numbers as strings
TextSettings ==
  [key |-> <<"0">>, tempo |-> <<"0">>, capo |-> <<"0">>,
   timeSignature |-> [beats |-> <<"3">>, beatValue |-> <<"4">>]]
PrintSettings == {DefaultSettings, ImportedSettings, BareSettings, TextSettings}

PrintPage(a, p, l, text) ==
  [barLyrics     |-> [i \in 1..16 |-> IF i - 1 = l THEN text ELSE <<>>],
   barBeatChords |-> [i \in 1..16 |-> IF i - 1 = a THEN p ELSE EmptyBar]]

PageOne == PrintPage(0, <<ChC, Empty, ChA, Blank>>, 0, Verse)
PageTwo == PrintPage(5, <<ChA, ChG, ChAm, Dash>>, -1, <<>>)
PageMarkup == PrintPage(15, <<Markup, ChAm, Empty, ChC>>, 15, Markup)

PrintNotes ==
  { DocNone, DocText, DocSingle(PageOne), DocPages(<<>>), DocPages(<<PageOne>>),
    DocPages(<<PageOne, PageTwo>>), DocPages(<<EmptyPage, PageTwo>>),
    DocPages(<<PageMarkup>>) }

InitPrint ==
  /\ \E t \in {Song, Markup}, g \in PrintSettings, n \in PrintNotes :
       composition = [title |-> t,
                      artist |-> IF t = Song THEN Undefined ELSE Markup,
                      globalSettings |-> g, notes |-> n]
  /\ printOptions \in [includeChordDiagrams : BOOLEAN, includeTablature : BOOLEAN,
                       includeNotation : BOOLEAN]
  /\ document = NotRendered
  /\ numMeasures = 4 /\ width = DefaultWidth /\ scale = DefaultScale
  /\ beatChords = [i \in 1..16 |-> Empty]
  /\ EditorIdle
  /\ page = EmptyPage
  /\ options = AllOptions
  /\ PageIdle
  /\ ResolverIdle
  /\ ScreenIdle
  /\ StoreIdle

\* chord names handed to the resolvers: the root spellings of the fifth
\* table, each followed by 5
FifthRoots ==
  { <<"C">>, <<"C", "#">>, <<"D", "b">>, <<"D">>, <<"D", "#">>, <<"E", "b">>,
    <<"E">>, <<"F">>, <<"F", "#">>, <<"G", "b">>, <<"G">>, <<"G", "#">>,
    <<"A", "b">>, <<"A">>, <<"A", "#">>, <<"B", "b">>, <<"B">> }

PowerNames == { r \o <<"5">> : r \in FifthRoots }

ChDm  == <<"D", "m">>
ChC9  == <<"C", "9">>
ChEb  == <<"E", "b">>
ChAZ  == <<"A", "Z">>            \* a root and a quality no table knows
ChEbZ == <<"E", "b", "Z">>       \* the same on a flat root
ChA5sp == <<"A", " ", "5">>
ChAB5 == <<"A", "B", "5">>       \* the root token is matched ignoring case

BaseNames ==
  { Empty, Blank, <<" ", " ">>, Dash, ChA, ChAm, ChDm, ChC, ChC9, ChEb, ChH,
    ChAZ, ChEbZ, ChA5sp, ChAB5 }
    \cup PowerNames

Annotations ==
  { <<"(", "e", "a", "s", "y", ")">>, <<" ", "(", "e", "a", "s", "y", ")">>,
    <<" ", "(", "E", "A", "S", "Y", ")">>,
    <<"(", "b", "a", "r", "r", "e", ")">>, <<" ", "(", "B", "a", "r", "r", "e", ")">>,
    <<" ", "(", "a", "l", "t", ")">>, <<"(", "A", "l", "t", ")">> }

MajorWords == { <<" ", "m", "a", "j", "o", "r">>, <<" ", "M", "a", "j", "o", "r">> }
MinorWords == { <<" ", "m", "i", "n", "o", "r">>, <<" ", "M", "I", "N", "O", "R">> }

Libs == {LibTonal, LibNoPower, LibEmpty, LibThrows}

\* a name X as it is, X with an annotation, 'X major', 'X minor'; plainName
\* is the name the decorated one stands for: X, X, X and Xm
InitResolve ==
  /\ \E x \in BaseNames :
       \/ chordName = x /\ plainName = x
       \/ \E a \in Annotations \cup MajorWords :
            chordName = x \o a /\ plainName = x
       \/ \E a \in MinorWords :
            chordName = x \o a /\ plainName = x \o <<"m">>
  /\ lib \in Libs
  /\ editorNotes = NotRendered
  /\ printNotes = NotRendered
  /\ beatChords = <<>>
  /\ width = DefaultWidth
  /\ numMeasures = 0
  /\ scale = DefaultScale
  /\ EditorIdle
  /\ page = EmptyPage
  /\ options = AllOptions
  /\ PageIdle
  /\ ScreenIdle
  /\ PrintIdle
  /\ StoreIdle

\* notes of the compositions of the store
GBars == [i \in 1..16 |-> IF i = 1 THEN ChG ELSE Empty]
ShortLyricsPage ==
  [barLyrics |-> <<Verse>>, barBeatChords |-> NewPage.barBeatChords]

NotesInputs ==
  { DocNone, DocText,
    DocPages(<<PageWith(0, <<ChC, Empty, ChG, Empty>>, 7)>>),
    DocPages(<<PageWith(0, <<ChC, Empty, ChG, Empty>>, -1),
               PageWith(5, <<ChAm, Empty, Empty, Empty>>, 7)>>),
    DocSingle(PageWith(10, <<ChA, Empty, Empty, ChG>>, 7)),
    DocBarChords(GBars),
    DocBarChords(<<ChC, ChG>>),
    DocPages(<<ShortLyricsPage>>),
    DocPages(<<>>) }

\* the notes of a composition added to the store later
AddedNotes == { DocNone, DocPages(<<PageWith(5, <<ChAm, Empty, Empty, Empty>>, 7)>>) }

EditBars == {0, 15}
EditBeats == {0, 3}
EditTexts == {Verse}
EditChords == {ChA, Empty}

\* the screen mounts with one empty page; the store holds two compositions
InitScreen ==
  /\ \E n \in NotesInputs : compositions = [id \in CompIds |->
                                            IF id = 1 THEN n
                                            ELSE IF id = 2 THEN DocNone
                                            ELSE Deleted]
  /\ currentComposition = NoComposition
  /\ currentNotes = DocNone
  /\ allPages = <<NewPage>>
  /\ currentPage = 0
  /\ lastOp = NoOp
  /\ ops = 0
  /\ beatChords = <<>>
  /\ width = DefaultWidth
  /\ numMeasures = 0
  /\ scale = DefaultScale
  /\ EditorIdle
  /\ page = EmptyPage
  /\ options = AllOptions
  /\ PageIdle
  /\ ResolverIdle
  /\ PrintIdle
  /\ StoreIdle

\* ------------------------------------------------------------------------
\* Operations
\* ------------------------------------------------------------------------
\* the effect of StaffNotes (useEffect on beatChords, width, height,
\* numMeasures, scale): off the web it returns at once; on the web the
\* container is in place once the component is mounted, and the effect
\* starts the async renderStaff, which captures the props of this render
\* and waits for import('vexflow')
StaffEffect ==
  /\ staffTask.mounted
  /\ staffTask.due
  /\ staffTask' = [staffTask EXCEPT
                     !.due = FALSE,
                     !.pending = IF staffTask.platform = "web"
                                 THEN Append(@, CurrentProps) ELSE @]
  /\ UNCHANGED <<beatChords, width, numMeasures, scale, staffOut, tabOut,
                 page, options, pageOut, calls>>
  /\ UNCHANGED resolverVars
  /\ UNCHANGED screenVars
  /\ UNCHANGED printVars
  /\ UNCHANGED storeVars

\* import('vexflow') resolves and the oldest waiting renderStaff goes on: it
\* clears the container and draws with the props it captured; with the
\* component unmounted containerRef.current is null, the clearing throws,
\* the catch logs the error and nothing is drawn
RenderStaffNotes ==
  /\ staffTask.pending # <<>>
  /\ LET props == Head(staffTask.pending)
     IN  IF staffTask.mounted
         THEN /\ staffOut' = renderStaff(props.beatChords, props.width,
                                         props.scale, props.numMeasures)
              /\ staffTask' = [staffTask EXCEPT !.pending = Tail(@),
                                                !.drawn = props]
         ELSE /\ staffOut' = staffOut
              /\ staffTask' = [staffTask EXCEPT !.pending = Tail(@)]
  /\ UNCHANGED <<beatChords, width, numMeasures, scale, tabOut,
                 page, options, pageOut, calls>>
  /\ UNCHANGED resolverVars
  /\ UNCHANGED screenVars
  /\ UNCHANGED printVars
  /\ UNCHANGED storeVars

\* the parent re-renders StaffNotes and Tablature with another chord on
\* the first beat: the effect of StaffNotes is due again, whatever renders
\* still wait, and Tablature renders anew
StaffPropsChange ==
  /\ staffTask.mounted
  /\ ~staffTask.due
  /\ staffTask.events < MaxStaffEvents
  /\ Len(beatChords) >= 1
  /\ \E c \in ChangedChords :
       /\ beatChords[1] # c
       /\ beatChords' = [beatChords EXCEPT ![1] = c]
  /\ staffTask' = [staffTask EXCEPT !.due = TRUE, !.events = @ + 1]
  /\ tabOut' = NotRendered
  /\ UNCHANGED <<width, numMeasures, scale, staffOut,
                 page, options, pageOut, calls>>
  /\ UNCHANGED resolverVars
  /\ UNCHANGED screenVars
  /\ UNCHANGED printVars
  /\ UNCHANGED storeVars

\* StaffNotes unmounts: its container and the drawing in it are gone, the
\* renders that wait for the import are not cancelled
StaffUnmount ==
  /\ staffTask.mounted
  /\ staffTask.events < MaxStaffEvents
  /\ staffTask' = [staffTask EXCEPT !.mounted = FALSE, !.due = FALSE,
                                    !.drawn = NoProps, !.events = @ + 1]
  /\ staffOut' = NotRendered
  /\ UNCHANGED <<beatChords, width, numMeasures, scale, tabOut,
                 page, options, pageOut, calls>>
  /\ UNCHANGED resolverVars
  /\ UNCHANGED screenVars
  /\ UNCHANGED printVars
  /\ UNCHANGED storeVars

\* the Tablature component renders
RenderTablature ==
  /\ tabOut = NotRendered
  /\ tabOut' = Tablature(beatChords, width, numMeasures)
  /\ UNCHANGED <<beatChords, width, numMeasures, scale, staffOut, staffTask,
                 page, options, pageOut, calls>>
  /\ UNCHANGED resolverVars
  /\ UNCHANGED screenVars
  /\ UNCHANGED printVars
  /\ UNCHANGED storeVars

\* generatePrintHtml calls generatePageHtml on the page
GeneratePage ==
  /\ pageOut = NotRendered
  /\ pageOut' = generatePageHtml(page, 1, 1, ChordsData, options)
  /\ calls' = PageCalls(page, options)
  /\ UNCHANGED <<beatChords, width, numMeasures, scale, staffOut, tabOut,
                 staffTask, page, options>>
  /\ UNCHANGED resolverVars
  /\ UNCHANGED screenVars
  /\ UNCHANGED printVars
  /\ UNCHANGED storeVars

\* generatePrintHtml calls the per-bar declaration of generatePageHtml
GeneratePagePerBar ==
  /\ pageOut = NotRendered
  /\ pageOut' = generatePageHtmlPerBar(page, 1, 1, ChordsData, options)
  /\ calls' = PageCallsPerBar(page, options)
  /\ UNCHANGED <<beatChords, width, numMeasures, scale, staffOut, tabOut,
                 staffTask, page, options>>
  /\ UNCHANGED resolverVars
  /\ UNCHANGED screenVars
  /\ UNCHANGED printVars
  /\ UNCHANGED storeVars

\* PrintService.print calls generatePrintHtml(composition, chordsData,
\* options)
GeneratePrint ==
  /\ document' = generatePrintHtml(composition, ChordsData, printOptions)
  /\ UNCHANGED <<composition, printOptions>>
  /\ UNCHANGED renderVars
  /\ UNCHANGED resolverVars
  /\ UNCHANGED screenVars
  /\ UNCHANGED storeVars

\* a component calls getChordNotesVexFlow(chordName)
ResolveEditor ==
  /\ editorNotes = NotRendered
  /\ editorNotes' = [done  |-> TRUE,
                     notes |-> getChordNotesVexFlowWith(lib, chordName),
                     plain |-> getChordNotesVexFlowWith(lib, plainName)]
  /\ UNCHANGED <<chordName, plainName, lib, printNotes>>
  /\ UNCHANGED renderVars
  /\ UNCHANGED screenVars
  /\ UNCHANGED printVars
  /\ UNCHANGED storeVars

\* generateNotesHtml calls getChordNotes(chordName)
ResolvePrint ==
  /\ printNotes = NotRendered
  /\ printNotes' = [done  |-> TRUE,
                    notes |-> getChordNotesWith(lib, chordName),
                    plain |-> getChordNotesWith(lib, plainName)]
  /\ UNCHANGED <<chordName, plainName, lib, editorNotes>>
  /\ UNCHANGED renderVars
  /\ UNCHANGED screenVars
  /\ UNCHANGED printVars
  /\ UNCHANGED storeVars

NextResolve ==
  \/ ResolveEditor
  \/ ResolvePrint

\* setCurrentComposition(id) / loadComposition(id) of the store: the entry
\* of the list becomes currentComposition. With another id the screen
\* renders with the new composition and the pages it had, and the effect
\* on currentComposition?.id is due; with the id of the current composition
\* the object is replaced and the effect does not run
SetCurrent ==
  /\ ops < MaxOps
  /\ lastOp.op # "set"
  /\ \E id \in CompIds :
       /\ compositions[id] # Deleted
       /\ id = currentComposition => currentNotes # compositions[id]
       /\ currentComposition' = id
       /\ currentNotes' = compositions[id]
       /\ lastOp' = Op(IF id = currentComposition THEN "same" ELSE "set",
                       id, -1, <<>>)
  /\ ops' = ops + 1
  /\ UNCHANGED <<compositions, allPages, currentPage>>
  /\ UNCHANGED renderVars
  /\ UNCHANGED resolverVars
  /\ UNCHANGED printVars
  /\ UNCHANGED storeVars

\* the effect on currentComposition?.id, run after that render (it does not
\* run when the render threw): it loads currentComposition.notes into the
\* editor
LoadComposition ==
  /\ lastOp.op = "set"
  /\ RenderOk(currentComposition, allPages, currentPage)
  /\ LET pages == LoadedPages(currentNotes)
     IN  /\ IF pages = <<>> /\ currentNotes.kind # "pages"
            THEN UNCHANGED <<allPages, currentPage>>
            ELSE allPages' = pages /\ currentPage' = 0
         /\ lastOp' = Op("load", currentComposition, -1, <<>>)
  /\ UNCHANGED <<compositions, currentComposition, currentNotes, ops>>
  /\ UNCHANGED renderVars
  /\ UNCHANGED resolverVars
  /\ UNCHANGED printVars
  /\ UNCHANGED storeVars

\* deleteComposition(id) of the store: deleting the current composition
\* leaves the screen without one; the effect then finds no composition and
\* sets nothing
ScreenDeleteComposition ==
  /\ ops < MaxOps
  /\ lastOp.op # "set"
  /\ \E id \in CompIds :
       /\ compositions[id] # Deleted
       /\ compositions' = [compositions EXCEPT ![id] = Deleted]
       /\ currentComposition' = IF id = currentComposition THEN NoComposition
                                ELSE currentComposition
       /\ currentNotes' = IF id = currentComposition THEN DocNone
                          ELSE currentNotes
       /\ lastOp' = Op("delete", id, -1, <<>>)
  /\ ops' = ops + 1
  /\ UNCHANGED <<allPages, currentPage>>
  /\ UNCHANGED renderVars
  /\ UNCHANGED resolverVars
  /\ UNCHANGED printVars
  /\ UNCHANGED storeVars

\* addComposition(composition) of the store: the entry of the list with the
\* id is replaced, or the composition is pushed; currentComposition keeps
\* the object it holds
ScreenAddComposition ==
  /\ ops < MaxOps
  /\ lastOp.op # "set"
  /\ \E id \in CompIds, n \in AddedNotes :
       /\ compositions[id] # n
       /\ compositions' = [compositions EXCEPT ![id] = n]
       /\ lastOp' = Op("import", id, -1, <<>>)
  /\ ops' = ops + 1
  /\ UNCHANGED <<currentComposition, currentNotes, allPages, currentPage>>
  /\ UNCHANGED renderVars
  /\ UNCHANGED resolverVars
  /\ UNCHANGED printVars
  /\ UNCHANGED storeVars

\* the button "Previous"
PreviousPage ==
  /\ ops < MaxOps
  /\ lastOp.op # "set"
  /\ RenderOk(currentComposition, allPages, currentPage)
  /\ currentPage > 0
  /\ currentPage' = currentPage - 1
  /\ lastOp' = Op("previous", -1, -1, <<>>)
  /\ ops' = ops + 1
  /\ UNCHANGED <<compositions, currentComposition, currentNotes, allPages>>
  /\ UNCHANGED renderVars
  /\ UNCHANGED resolverVars
  /\ UNCHANGED printVars
  /\ UNCHANGED storeVars

\* the button "Next" / "+ Add Page"
NextOrAddPage ==
  /\ ops < MaxOps
  /\ lastOp.op # "set"
  /\ RenderOk(currentComposition, allPages, currentPage)
  /\ IF currentPage < Len(allPages) - 1
     THEN /\ currentPage' = currentPage + 1
          /\ lastOp' = Op("next", -1, -1, <<>>)
          /\ UNCHANGED allPages
     ELSE /\ Len(allPages) < MaxPages
          /\ allPages' = AddedPage(allPages)
          /\ currentPage' = Len(allPages)
          /\ lastOp' = Op("add", -1, -1, <<>>)
  /\ ops' = ops + 1
  /\ UNCHANGED <<compositions, currentComposition, currentNotes>>
  /\ UNCHANGED renderVars
  /\ UNCHANGED resolverVars
  /\ UNCHANGED printVars
  /\ UNCHANGED storeVars

\* handleLyricsChange(barIndex, text): the save reads allPages of the render
\* the handler was created in
handleLyricsChange ==
  /\ ops < MaxOps
  /\ lastOp.op # "set"
  /\ RenderOk(currentComposition, allPages, currentPage)
  /\ \E barIndex \in EditBars, text \in EditTexts :
       LET newLyrics == SetAt(CurrentBarLyrics(allPages, currentPage),
                              barIndex, text)
       IN  /\ allPages' = setBarLyrics(allPages, currentPage, newLyrics)
           /\ lastOp' = Op("lyric", barIndex, -1, text)
  /\ compositions' = updateComposition(compositions, currentComposition,
                                       JsonStringify(allPages))
  /\ currentNotes' = JsonStringify(allPages)
  /\ ops' = ops + 1
  /\ UNCHANGED <<currentComposition, currentPage>>
  /\ UNCHANGED renderVars
  /\ UNCHANGED resolverVars
  /\ UNCHANGED printVars
  /\ UNCHANGED storeVars

\* handleBeatChordChange(barIndex, beatIndex, chord)
handleBeatChordChange ==
  /\ ops < MaxOps
  /\ lastOp.op # "set"
  /\ RenderOk(currentComposition, allPages, currentPage)
  /\ \E barIndex \in EditBars, beatIndex \in EditBeats, chord \in EditChords :
       LET old       == CurrentBarBeatChords(allPages, currentPage)
           newChords == [old EXCEPT ![barIndex + 1] =
                           SetAt(old[barIndex + 1], beatIndex, chord)]
       IN  /\ allPages' = setBarBeatChords(allPages, currentPage, newChords)
           /\ lastOp' = Op("chord", barIndex, beatIndex, chord)
  /\ compositions' = updateComposition(compositions, currentComposition,
                                       JsonStringify(allPages))
  /\ currentNotes' = JsonStringify(allPages)
  /\ ops' = ops + 1
  /\ UNCHANGED <<currentComposition, currentPage>>
  /\ UNCHANGED renderVars
  /\ UNCHANGED resolverVars
  /\ UNCHANGED printVars
  /\ UNCHANGED storeVars

\* the title field: onChangeText calls updateComposition({ title: text }).
\* The title goes to the current composition, which keeps its notes, and the
\* entry of the array with its id becomes the current composition
handleTitleChange ==
  /\ ops < MaxOps
  /\ lastOp.op # "set"
  /\ RenderOk(currentComposition, allPages, currentPage)
  /\ compositions' = updateComposition(compositions, currentComposition,
                                       currentNotes)
  /\ lastOp' = Op("title", currentComposition, -1, <<>>)
  /\ ops' = ops + 1
  /\ UNCHANGED <<currentComposition, currentNotes, allPages, currentPage>>
  /\ UNCHANGED renderVars
  /\ UNCHANGED resolverVars
  /\ UNCHANGED printVars
  /\ UNCHANGED storeVars

\* handleCreateNew, the button of the screen without a composition:
\* createComposition(title) pushes a composition without notes under an id
\* the store does not hold and makes it the current one; the id changes, so
\* the effect on currentComposition?.id is due
handleCreateNew ==
  /\ ops < MaxOps
  /\ lastOp.op # "set"
  /\ currentComposition = NoComposition
  /\ \E id \in CompIds :
       /\ compositions[id] = Deleted
       /\ compositions' = [compositions EXCEPT ![id] = DocNone]
       /\ currentComposition' = id
       /\ lastOp' = Op("set", id, -1, <<>>)
  /\ currentNotes' = DocNone
  /\ ops' = ops + 1
  /\ UNCHANGED <<allPages, currentPage>>
  /\ UNCHANGED renderVars
  /\ UNCHANGED resolverVars
  /\ UNCHANGED printVars
  /\ UNCHANGED storeVars

NextScreen ==
  \/ SetCurrent
  \/ LoadComposition
  \/ ScreenDeleteComposition
  \/ ScreenAddComposition
  \/ PreviousPage
  \/ NextOrAddPage
  \/ handleLyricsChange
  \/ handleBeatChordChange
  \/ handleTitleChange
  \/ handleCreateNew

Next ==
  \/ StaffEffect
  \/ RenderStaffNotes
  \/ StaffPropsChange
  \/ StaffUnmount
  \/ RenderTablature

Spec == Init /\ [][Next]_vars

\* the print path next to the editor row of the same page, mounted once
NextPage ==
  \/ StaffEffect
  \/ RenderStaffNotes
  \/ RenderTablature
  \/ GeneratePage

SpecPage == InitPage /\ [][NextPage]_vars

\* htmlTemplates.ts declares generatePageHtml twice: the row-spanning
\* declaration on the pages of the row composition, and the per-bar
\* declaration on the same pages
SpecCompose == InitCompose /\ [][GeneratePage]_vars

SpecComposePerBar == InitCompose /\ [][GeneratePagePerBar]_vars

\* documents printed from a composition
SpecPrint == InitPrint /\ [][GeneratePrint]_vars

SpecResolve == InitResolve /\ [][NextResolve]_vars

SpecScreen == InitScreen /\ [][NextScreen]_vars

\* ------------------------------------------------------------------------
\* Properties: duration inference (StaffNotes.renderStaff)
\* ------------------------------------------------------------------------
\* beats a duration lasts in 4/4
DurationBeats(d) ==
  CASE d = "q" -> 1 [] d = "h" -> 2 [] d = "hd" -> 3 [] d = "w" -> 4

\* the beats note nt of a measure occupies
NoteRange(nt) == nt.beat .. (nt.beat + DurationBeats(nt.duration) - 1)

RECURSIVE SumBeats(_)
SumBeats(notes) ==
  IF notes = <<>> THEN 0
  ELSE DurationBeats(Head(notes).duration) + SumBeats(Tail(notes))

\* the chord name of beat b of measure m of the prop
PropChord(m, b) == ChordAt(beatChords, m * 4 + b)

\* the number of empty beats of measure m immediately following beat b
EmptyRun(m, b) ==
  Cardinality({k \in 1..(3 - b) :
                 \A j \in 1..k : IsEmptyBeat(PropChord(m, b + j))})

Resolves(chord) == getChordNotesVexFlow(chord) # <<>>

\* the drawing in the container is the one of the props of this render
StaffShown == staffOut.done /\ staffTask.drawn = CurrentProps

Measures == IF StaffShown THEN 1..Len(staffOut.voices) ELSE {}

\* C1: the notes emitted for a measure cover beats 0..3 exactly once each
\* and their durations sum to 4 beats
C1_CoverExactlyOnce ==
  \A m \in Measures :
    LET v == staffOut.voices[m]
    IN  /\ \A k \in 0..3 :
             Cardinality({i \in 1..Len(v) : k \in NoteRange(v[i])}) = 1
        /\ \A i \in 1..Len(v) : NoteRange(v[i]) \subseteq 0..3
        /\ SumBeats(v) = 4

C1_Witness ==
  /\ StaffShown
  /\ \E m \in Measures :
       LET v == staffOut.voices[m]
       IN  /\ \E i \in 1..Len(v) : v[i].kind = "StaveNote" /\ v[i].duration = "hd"
           /\ \E i \in 1..Len(v) : v[i].kind = "GhostNote"
           /\ \E b \in 0..3 : PropChord(m - 1, b) = ChH

\* C2 as stated: every beat with a non-empty chord name starts a span of
\* min(emptyRun, 3) + 1 beats
C2_NonEmptyStartsSpan ==
  \A m \in Measures : \A b \in 0..3 :
    ~IsEmptyBeat(PropChord(m - 1, b)) =>
      \E i \in 1..Len(staffOut.voices[m]) :
        LET nt == staffOut.voices[m][i]
        IN  /\ nt.kind = "StaveNote"
            /\ nt.beat = b
            /\ DurationBeats(nt.duration) = Min(EmptyRun(m - 1, b), 3) + 1

\* C2 amended: every beat whose chord name resolves to at least one pitch
\* starts a span of min(emptyRun, 3) + 1 beats, with the duration
\* quarter / half / dotted half / whole for 1 / 2 / 3 / 4 beats; a beat whose
\* non-empty name resolves to no pitch yields a quarter ghost instead
C2_ResolvedStartsSpan ==
  \A m \in Measures : \A b \in 0..3 :
    LET v    == staffOut.voices[m]
        here == {i \in 1..Len(v) : v[i].beat = b}
    IN  /\ Resolves(PropChord(m - 1, b)) =>
             /\ Cardinality(here) = 1
             /\ \A i \in here :
                  /\ v[i].kind = "StaveNote"
                  /\ v[i].keys = getChordNotesVexFlow(PropChord(m - 1, b))
                  /\ v[i].duration =
                       (CASE EmptyRun(m - 1, b) = 0 -> "q"
                          [] EmptyRun(m - 1, b) = 1 -> "h"
                          [] EmptyRun(m - 1, b) = 2 -> "hd"
                          [] EmptyRun(m - 1, b) = 3 -> "w")
        /\ (~IsEmptyBeat(PropChord(m - 1, b)) /\ ~Resolves(PropChord(m - 1, b))) =>
             /\ Cardinality(here) = 1
             /\ \A i \in here : v[i].kind = "GhostNote" /\ v[i].duration = "q"

C2_Witness ==
  /\ StaffShown
  /\ \E m \in Measures :
       /\ PropChord(m - 1, 0) = ChC /\ PropChord(m - 1, 1) = Empty
       /\ PropChord(m - 1, 2) = ChH /\ PropChord(m - 1, 3) = Empty
       /\ Len(staffOut.voices[m]) = 3
       /\ staffOut.voices[m][1].duration = "h"

\* beat b of measure m continues a sounding chord: an earlier beat of the
\* measure resolves to pitches and every beat after it up to b is empty
IsContinuation(m, b) ==
  \E s \in 0..(b - 1) :
    /\ Resolves(PropChord(m, s))
    /\ \A j \in (s + 1)..b : IsEmptyBeat(PropChord(m, j))

\* C3: every empty beat that does not continue a sounding chord has its own
\* ghost of one quarter; no ghost is longer than a quarter; an all-empty
\* measure is 4 quarter ghosts
C3_GhostPerEmptyBeat ==
  \A m \in Measures :
    LET v == staffOut.voices[m]
    IN  /\ \A b \in 0..3 :
             (IsEmptyBeat(PropChord(m - 1, b)) /\ ~IsContinuation(m - 1, b)) =>
               Cardinality({i \in 1..Len(v) :
                              /\ v[i].kind = "GhostNote"
                              /\ v[i].beat = b
                              /\ NoteRange(v[i]) = {b}}) = 1
        /\ \A i \in 1..Len(v) :
             v[i].kind = "GhostNote" => v[i].duration = "q"
        /\ (\A b \in 0..3 : IsEmptyBeat(PropChord(m - 1, b))) =>
             /\ Len(v) = 4
             /\ \A i \in 1..4 : v[i].kind = "GhostNote" /\ v[i].beat = i - 1

C3_Witness ==
  /\ StaffShown
  /\ \E m \in Measures :
       /\ \A b \in 0..3 : PropChord(m - 1, b) = Empty
       /\ Len(staffOut.voices[m]) = 4
  /\ \E m \in Measures :
       /\ PropChord(m - 1, 0) = Empty /\ PropChord(m - 1, 1) = Dash
       /\ PropChord(m - 1, 2) = ChC
       /\ staffOut.voices[m][1].kind = "GhostNote"
       /\ staffOut.voices[m][2].kind = "GhostNote"

\* ------------------------------------------------------------------------
\* Properties: rows of the print path
\* ------------------------------------------------------------------------
Rows == IF pageOut.done THEN 1..4 ELSE {}

\* the chord name of beat i (0..15) of row r (1..4) of the page
RowChord(r, i) == RowBeatChords(page, r - 1)[i + 1]

ElemsOf(svg, tag, beat) ==
  {k \in 1..Len(svg.elements) :
     svg.elements[k].tag = tag /\ svg.elements[k].beat = beat}

\* horizontal lines of an SVG: the staff lines, the string lines
HorizontalLines(svg) ==
  {k \in 1..Len(svg.elements) :
     /\ svg.elements[k].tag = "line"
     /\ svg.elements[k].y1 = svg.elements[k].y2
     /\ svg.elements[k].x1 # svg.elements[k].x2}

NoteHeads(svg) ==
  {k \in 1..Len(svg.elements) : svg.elements[k].tag = "ellipse"}

\* C4: in a row, the note heads of beat i and the fret numbers of beat i are
\* drawn at the same x of their 800-unit drawings. (The chord boxes are laid
\* out by the browser from the style sheet: flex items with gaps of 4pt
\* between bars and 1pt between boxes, next to the two drawings; the code
\* computes no x for them.)
C4_BeatsAlign ==
  \A r \in Rows : \A i \in 0..15 :
    LET notes == pageOut.rows[r].notesSvg
        tab   == pageOut.rows[r].tabSvg
    IN  \A t \in ElemsOf(tab, "text", i) :
          ElemsOf(notes, "ellipse", i) # {} =>
            \E e \in ElemsOf(notes, "ellipse", i) :
              notes.elements[e].x1 = tab.elements[t].x1

\* C5: with includeNotation the staff SVG of every row has 5 staff lines,
\* and no note head when no beat of the row carries a chord
C5_StaffLinesAlways ==
  \A r \in Rows :
    options.includeNotation =>
      /\ pageOut.rows[r].notesSvg.svg
      /\ Cardinality(HorizontalLines(pageOut.rows[r].notesSvg)) = 5
      /\ (\A i \in 0..15 : IsEmptyBeat(RowChord(r, i))) =>
           NoteHeads(pageOut.rows[r].notesSvg) = {}

\* C6: with includeTablature the tablature SVG of every row has 6 string
\* lines, and fret numbers exactly for the beats that have fingering data
C6_StringLinesAlways ==
  \A r \in Rows :
    options.includeTablature =>
      /\ pageOut.rows[r].tabSvg.svg
      /\ Cardinality(HorizontalLines(pageOut.rows[r].tabSvg)) = 6
      /\ \A i \in 0..15 :
           ElemsOf(pageOut.rows[r].tabSvg, "text", i) # {}
             <=> BeatFingering(RowChord(r, i)) # NoFingering

\* C7: the glyph on displayed string line k (0 = top) of a beat is f[5 - k]
\* of the beat's fingering f (stored low string first), 'x' for a muted
\* string and the stored value otherwise; in the print tablature and in the
\* Tablature component
C7_DisplayOrder ==
  /\ \A r \in Rows : \A i \in 0..15 :
       LET tab == pageOut.rows[r].tabSvg
           f   == BeatFingering(RowChord(r, i))
       IN  (tab.svg /\ f # NoFingering) =>
             \A k \in 0..5 :
               \* the k-th string line from the top, and the glyph 3 below it
               LET lineY == tab.elements[k + 1].y1
                   glyph == {t \in ElemsOf(tab, "text", i) :
                               tab.elements[t].y1 = RAdd(lineY, Num(3))}
               IN  /\ tab.elements[k + 1].tag = "line"
                   /\ Cardinality(glyph) = 1
                   /\ \A t \in glyph : tab.elements[t].text = f[6 - k]
  /\ tabOut.done =>
       \A i \in 1..Len(beatChords) :
         LET f == BeatFingering(beatChords[i])
         IN  f # NoFingering =>
               /\ tabOut.columns[i].drawn
               /\ \A k \in 0..5 :
                    /\ tabOut.columns[i].frets[k + 1].text = f[6 - k]
                    /\ tabOut.columns[i].frets[k + 1].top
                         = RSub(tabOut.stringLines[k + 1], Num(7))
  /\ \A k \in 1..5 :
       tabOut.done => RLess(tabOut.stringLines[k], tabOut.stringLines[k + 1])

C7_Witness ==
  /\ pageOut.done /\ tabOut.done
  /\ \E r \in Rows : \E i \in 0..15 :
       /\ RowChord(r, i) = ChC
       /\ Cardinality(ElemsOf(pageOut.rows[r].tabSvg, "text", i)) = 6
       /\ \E t \in ElemsOf(pageOut.rows[r].tabSvg, "text", i) :
            pageOut.rows[r].tabSvg.elements[t].text = "x"
  /\ \E i \in 1..Len(beatChords) :
       /\ beatChords[i] = ChC
       /\ tabOut.columns[i].drawn
       /\ tabOut.columns[i].frets[6].text = "x"
       /\ tabOut.columns[i].frets[2].text = "1"

\* ------------------------------------------------------------------------
\* Properties: measure geometry of the editor components
\* ------------------------------------------------------------------------
RECURSIVE SumWidths(_)
SumWidths(staves) ==
  IF staves = <<>> THEN Num(0)
  ELSE RAdd(Head(staves).width, SumWidths(Tail(staves)))

\* the width of measure m (1-based) between two bar lines of the tablature
TabMeasureWidth(m) == RSub(tabOut.barLines[m + 1], tabOut.barLines[m])

TabSumWidths == RSub(tabOut.barLines[numMeasures + 1], tabOut.barLines[1])

PositiveWidth == RLess(Num(0), width)

\* C8 as stated: non-first widths + (first width - clef allowance)
\* = total width - margin, in Tablature and in StaffNotes
C8_SumMinusClef ==
  (numMeasures \in {1, 2, 4} /\ PositiveWidth) =>
    /\ tabOut.done =>
         RSub(TabSumWidths, Num(TabClefAllowance)) = RSub(width, Num(TabMargin))
    /\ StaffShown =>
         RSub(SumWidths(staffOut.staves), Num(StaffClefAllowance))
           = RSub(RDiv(width, scale), Num(StaffMargin))

\* C8 amended: the measure widths, the first with its clef allowance, sum to
\* the total width minus the margin: in Tablature for every count >= 1, in
\* StaffNotes for every count >= 2; the single measure of StaffNotes is
\* wider than that by the clef allowance
C8_SumIsTotal ==
  numMeasures >= 1 =>
    /\ tabOut.done =>
         /\ TabSumWidths = RSub(width, Num(TabMargin))
         /\ TabMeasureWidth(1) = tabOut.firstMeasureWidth
         /\ \A m \in 2..numMeasures :
              TabMeasureWidth(m) = tabOut.otherMeasureWidth
    /\ (StaffShown /\ numMeasures >= 2) =>
         /\ SumWidths(staffOut.staves) = RSub(RDiv(width, scale), Num(StaffMargin))
         /\ \A m \in 2..numMeasures :
              staffOut.staves[m].x
                = RAdd(staffOut.staves[m - 1].x, staffOut.staves[m - 1].width)
    /\ (StaffShown /\ numMeasures = 1) =>
         SumWidths(staffOut.staves)
           = RAdd(RSub(RDiv(width, scale), Num(StaffMargin)), Num(StaffClefAllowance))

C8_Witness ==
  /\ tabOut.done /\ StaffShown
  /\ numMeasures = 4
  /\ width = Num(300)
  /\ tabOut.firstMeasureWidth = Num(110)
  /\ tabOut.otherMeasureWidth = <<170, 3>>

\* C9: with one measure the measure is as wide as the total width minus the
\* margin, its beats lie inside it, and no width is the result of a division
\* by zero; in StaffNotes and in Tablature
C9_SingleMeasure ==
  numMeasures = 1 =>
    /\ tabOut.done =>
         /\ TabMeasureWidth(1) = RSub(width, Num(TabMargin))
         /\ IsFinite(tabOut.firstMeasureWidth)
         /\ IsFinite(tabOut.otherMeasureWidth)
    /\ StaffShown =>
         /\ staffOut.staves[1].width = RSub(RDiv(width, scale), Num(StaffMargin))
         /\ IsFinite(staffOut.firstMeasureWidth)
         /\ IsFinite(staffOut.otherMeasureWidth)

Degenerate == numMeasures = 0 \/ ~PositiveWidth

\* C10: on a degenerate input (no measure, or a width <= 0) the geometry is
\* refused with an error: no component returns measure or beat positions
C10_DegenerateRefused ==
  Degenerate => (~tabOut.done /\ ~staffOut.done)

\* ------------------------------------------------------------------------
\* Properties: the chord resolvers
\* ------------------------------------------------------------------------
\* the pitch names of a result of the editor resolver, in lower case
EditorNames(notes) == [i \in 1..Len(notes) |-> notes[i].note]

\* the pitch names of a result of the print resolver (the pitch without its
\* octave digit), in lower case
PrintNames(notes) ==
  [i \in 1..Len(notes) |->
     toLowerCase(SubSeq(notes[i].pitch, 1, Len(notes[i].pitch) - 1))]

LowerAll(names) == [i \in 1..Len(names) |-> toLowerCase(names[i])]

IsBlankName(name) == \A i \in 1..Len(name) : name[i] = " "

\* C11: each resolver returns a list of at most 4 pitches for every chord
\* name and every behaviour of the lookup (a throw included), and the empty
\* list for '', a whitespace-only name and '-'
C11_ResolveTotal ==
  /\ editorNotes.done =>
       /\ Len(editorNotes.notes) <= 4
       /\ \A i \in 1..Len(editorNotes.notes) :
            editorNotes.notes[i].octave \in {3, 4}
       /\ (IsBlankName(chordName) \/ chordName = Dash) => editorNotes.notes = <<>>
  /\ printNotes.done =>
       /\ Len(printNotes.notes) <= 4
       /\ \A i \in 1..Len(printNotes.notes) :
            printNotes.notes[i].midiNote \in 0..127
       /\ (IsBlankName(chordName) \/ chordName = Dash) => printNotes.notes = <<>>

C11_Witness ==
  /\ editorNotes.done /\ printNotes.done
  /\ lib = LibTonal
  /\ chordName = ChC9
  /\ Len(TonalChordNotes(ChC9)) = 5
  /\ Len(editorNotes.notes) = 4
  /\ Len(printNotes.notes) = 3

\* the power-chord special case of the editor resolver handles chordName:
\* the name is a root of the fifth table followed by 5 and the lookup has no
\* pitches for it
PowerHandled ==
  /\ editorNotes.done
  /\ chordName \in PowerNames
  /\ ChordGet(lib, chordName) = <<>>

\* C12: when the power-chord special case handles root+'5', the result is
\* exactly the root and the fifth the table gives for that root spelling
C12_PowerChordFifth ==
  PowerHandled =>
    LET r == SubSeq(chordName, 1, Len(chordName) - 1)
    IN  EditorNames(editorNotes.notes) = LowerAll(<<r, getFifth(r)>>)

\* C13: a name with an annotation (easy), (barre) or (alt) in any letter
\* case, 'X major' and 'X minor' resolve to what X, X and Xm resolve to; in
\* the editor resolver and in the print resolver
C13_NormalizationPreserves ==
  /\ editorNotes.done => editorNotes.notes = editorNotes.plain
  /\ printNotes.done => printNotes.notes = printNotes.plain

\* the result the fallback ladder prescribes for the normalized name c under
\* the lookup behaviour l, cut to n pitches
Ladder(l, c, n) ==
  LET rm == rootMatch(c)
  IN  IF rm = NoMatch THEN <<>>
      ELSE IF c = rm \o <<"5">> THEN LowerAll(<<rm, getFifth(rm)>>)
      ELSE IF ChordGet(l, toUpperCase(rm)) # <<>>
           THEN LowerAll(FirstN(ChordGet(l, toUpperCase(rm)), n))
      ELSE LowerAll(<<rm>>)

\* C14: when the full lookup yields no pitches, both resolvers return what
\* the ladder prescribes: nothing without a root token, else root and fifth
\* for root+'5', else the root's major chord, else the root alone
C14_FallbackLadder ==
  /\ (editorNotes.done /\ ~IsEmptyBeat(chordName)
        /\ ChordGet(lib, EditorTonalName(EditorCleanName(chordName))) = <<>>) =>
       EditorNames(editorNotes.notes)
         = Ladder(lib, EditorTonalName(EditorCleanName(chordName)), 4)
  /\ (printNotes.done /\ ~IsEmptyBeat(chordName)
        /\ ChordGet(lib, PrintCleanName(chordName)) = <<>>) =>
       PrintNames(printNotes.notes)
         = Ladder(lib, PrintCleanName(chordName), 3)

\* ------------------------------------------------------------------------
\* Properties: pages of the editor
\* ------------------------------------------------------------------------
PageShapeOk(pg) ==
  /\ Len(pg.barLyrics) = 16
  /\ Len(pg.barBeatChords) = 16
  /\ \A r \in 1..Len(pg.barBeatChords) : Len(pg.barBeatChords[r]) = 4

\* C15: in every state of the editor every page has 16 lyrics and 16 rows of
\* 4 beat chords
C15_PageShape ==
  \A i \in 1..Len(allPages) : PageShapeOk(allPages[i])

\* the notes of the current composition, decoded as the load effect does
SavedPages == LoadedPages(currentNotes)

\* C16: after a lyric edit or a chord edit the notes of the current
\* composition decode to the pages of the editor, the edit included
C16_SavedIncludesEdit ==
  (lastOp.op \in {"lyric", "chord"} /\ currentComposition # NoComposition) =>
    /\ currentNotes.kind = "pages"
    /\ compositions[currentComposition] = currentNotes
    /\ SavedPages = JsonStringify(allPages).pages
    /\ Len(SavedPages) = Len(allPages)
    /\ lastOp.op = "lyric" =>
         SavedPages[currentPage + 1].barLyrics[lastOp.bar + 1] = lastOp.text
    /\ lastOp.op = "chord" =>
         SavedPages[currentPage + 1].barBeatChords[lastOp.bar + 1][lastOp.beat + 1]
           = lastOp.text

\* C17: Add Page appends exactly one page of 16 empty lyrics and 16 x 4 empty
\* chords, keeps every page that was there and makes the new page current;
\* navigating changes no page; an edit changes only the current page; no
\* operation of the page removes or reorders a page
C17_PagesAppendOnly ==
  [][ lastOp'.op # "load" =>
        /\ Len(allPages') >= Len(allPages)
        /\ lastOp'.op = "add" =>
             /\ currentPage >= Len(allPages) - 1
             /\ Len(allPages') = Len(allPages) + 1
             /\ \A i \in 1..Len(allPages) : allPages'[i] = allPages[i]
             /\ allPages'[Len(allPages')].barLyrics = [i \in 1..16 |-> <<>>]
             /\ allPages'[Len(allPages')].barBeatChords
                  = [i \in 1..16 |-> <<Empty, Empty, Empty, Empty>>]
             /\ currentPage' = Len(allPages') - 1
        /\ lastOp'.op \in {"previous", "next"} => allPages' = allPages
        /\ lastOp'.op \in {"lyric", "chord"} =>
             /\ currentPage < Len(allPages) => Len(allPages') = Len(allPages)
             /\ currentPage' = currentPage
             /\ \A i \in 1..Len(allPages) :
                  i # currentPage + 1 => allPages'[i] = allPages[i]
    ]_vars

C17_Witness ==
  /\ lastOp.op = "add"
  /\ Len(allPages) = 3
  /\ currentPage = 2
  /\ allPages[1] = PageWith(0, <<ChC, Empty, ChG, Empty>>, -1)
  /\ allPages[2] = PageWith(5, <<ChAm, Empty, Empty, Empty>>, 7)
  /\ allPages[3] = EmptyPage

\* the invocations of one renderer among the calls, in order
CallsOf(renderer) == SelectSeq(calls, LAMBDA c : c.renderer = renderer)

RendererEnabled(renderer) ==
  IF renderer = "notes" THEN options.includeNotation ELSE options.includeTablature

\* C18: once generatePageHtml has returned, every enabled renderer (staff,
\* tablature) was invoked exactly 4 times for the page, once per row and
\* never once per bar, and the invocation of row r received the 16 beat
\* chords of that row, bar after bar and beat after beat
C18_OncePerRow ==
  pageOut.done =>
    \A renderer \in {"notes", "tab"} :
      RendererEnabled(renderer) =>
        /\ Len(CallsOf(renderer)) = 4
        /\ \A r \in 1..4 :
             /\ CallsOf(renderer)[r].chords = RowBeatChords(page, r - 1)
             /\ Len(CallsOf(renderer)[r].chords) = 16

\* the row with every beat but beat j (0-based) emptied
OnlyBeat(bc, j) == [i \in 1..Len(bc) |-> IF i = j + 1 THEN bc[i] ELSE Empty]

\* the elements an SVG draws for one beat, in order
GlyphsOf(svg, beat) == SelectSeq(svg.elements, LAMBDA e : e.beat = beat)

\* C19: a beat whose chord name is empty or has no entry in the fingering
\* lookup gets no fret glyph while the 6 string lines are drawn, and every
\* other beat of the row gets the fret glyphs it gets when it is the only
\* chord of the row, at the same positions; in the print tablature of every
\* row of the page and in the Tablature component
C19_NoFretsForMissing ==
  /\ pageOut.done /\ options.includeTablature =>
       \A r \in Rows : \A i \in 0..15 :
         LET tab == pageOut.rows[r].tabSvg
             bc  == RowBeatChords(page, r - 1)
         IN  BeatFingering(RowChord(r, i)) = NoFingering =>
               /\ GlyphsOf(tab, i) = <<>>
               /\ Cardinality(HorizontalLines(tab)) = 6
               /\ \A j \in 0..15 :
                    BeatFingering(RowChord(r, j)) # NoFingering =>
                      /\ GlyphsOf(tab, j) # <<>>
                      /\ GlyphsOf(tab, j) =
                           GlyphsOf(generateTablatureHtml(OnlyBeat(bc, j), ChordsData,
                                      Num(RowWidth), Num(RowTabHeight)), j)
  /\ tabOut.done =>
       \A i \in 1..Len(beatChords) :
         BeatFingering(beatChords[i]) = NoFingering =>
           /\ ~tabOut.columns[i].drawn
           /\ Len(tabOut.stringLines) = 6
           /\ \A j \in 1..Len(beatChords) :
                BeatFingering(beatChords[j]) # NoFingering =>
                  /\ tabOut.columns[j].drawn
                  /\ tabOut.columns[j] =
                       Tablature(OnlyBeat(beatChords, j - 1), width,
                                 numMeasures).columns[j]

\* names that replace a chord: empty, blank, the rest sign and a name the
\* resolver finds no note for
BadNames == {Empty, Blank, Dash, ChH}

\* the row with the name of beat i (0-based) replaced
ReplaceBeat(bc, i, name) == [k \in 1..Len(bc) |-> IF k = i + 1 THEN name ELSE bc[k]]

\* C20: in the staff of every printed row, replacing the chord name of a
\* beat that shows note heads by an empty or unresolvable name leaves that
\* beat without note head and stem, leaves the note heads, accidentals and
\* stem of every other beat as they were, at the same coordinates, and the
\* resolver raises no error for the replacement whatever the chord table
\* does
C20_LocalAbsorption ==
  pageOut.done /\ options.includeNotation =>
    \A r \in Rows : \A i \in 0..15 :
      ElemsOf(pageOut.rows[r].notesSvg, "ellipse", i) # {} =>
        \A bad \in BadNames :
          LET staff    == pageOut.rows[r].notesSvg
              replaced == generateNotesHtml(
                            ReplaceBeat(RowBeatChords(page, r - 1), i, bad),
                            Num(RowWidth), Num(RowStaffHeight))
          IN  /\ \A l \in Libs : getChordNotesWith(l, bad) = <<>>
              \* what is drawn is what was drawn, less the glyphs of beat i
              /\ replaced.elements =
                   SelectSeq(staff.elements, LAMBDA e : e.beat # i)
              /\ GlyphsOf(replaced, i) = <<>>

\* a chord was drawn at a beat that follows another drawn chord
C20_Witness ==
  /\ pageOut.done /\ options.includeNotation
  /\ \E r \in Rows : \E i, j \in 0..15 :
       /\ i < j
       /\ GlyphsOf(pageOut.rows[r].notesSvg, i) # <<>>
       /\ Len(GlyphsOf(pageOut.rows[r].notesSvg, j)) >= 4
       /\ GlyphsOf(generateNotesHtml(ReplaceBeat(RowBeatChords(page, r - 1), i, ChH),
                                     Num(RowWidth), Num(RowStaffHeight)), j)
            = GlyphsOf(pageOut.rows[r].notesSvg, j)

\* ------------------------------------------------------------------------
\* Properties: the printed document
\* ------------------------------------------------------------------------
\* the pages the document is printed from, and their beat names in order
DocPagesOf == ParsedPages(composition.notes)
BeatNames == AllBeatNames(DocPagesOf)

\* the position of the first beat named n
FirstUse(n) == CHOOSE k \in 1..Len(BeatNames) :
                 /\ BeatNames[k] = n
                 /\ \A h \in 1..(k - 1) : BeatNames[h] # n

\* C21: with chord diagrams enabled, the chord reference of the document
\* shows each chord at most once, in the order of first use, and shows
\* exactly the chords that name a beat of some page of the composition and
\* have an entry in the fingering table; there is one reference section
\* when there is such a chord and none otherwise, and the reference of the
\* editor lists the same chords
C21_ChordReference ==
  document.done /\ printOptions.includeChordDiagrams =>
    LET d == document.chordReference.diagrams
    IN  /\ \A i, j \in 1..Len(d) : i < j => d[i] # d[j]
        /\ {d[i] : i \in 1..Len(d)} =
             {BeatNames[k] : k \in {h \in 1..Len(BeatNames) :
                 /\ BeatNames[h] # <<>>
                 /\ FindChord(ChordsData, BeatNames[h]) # NoFingering}}
        /\ \A i, j \in 1..Len(d) : i < j => FirstUse(d[i]) < FirstUse(d[j])
        /\ document.chordReference.section <=> d # <<>>
        /\ ~document.chordReference.placeholder
        /\ d = [i \in 1..Len(uniqueChords(DocPagesOf, ChordsData)) |->
                  uniqueChords(DocPagesOf, ChordsData)[i].name]

\* a chord used on the second page only is in the reference, and a chord
\* used on both pages is there once
C21_Witness ==
  /\ document.done /\ printOptions.includeChordDiagrams
  /\ \/ /\ composition.notes = DocPages(<<EmptyPage, PageTwo>>)
        /\ document.chordReference.diagrams = <<ChA, ChAm>>
     \/ /\ composition.notes = DocPages(<<PageOne, PageTwo>>)
        /\ document.chordReference.diagrams = <<ChC, ChA, ChAm>>

\* C22: a composition without notes, with notes that are not JSON, or with
\* notes in the single-page format of older versions is printed without
\* failure as a document of one page
C22_SinglePageFallback ==
  (document.done /\ composition.notes.kind \in {"undefined", "text", "single"}) =>
    Len(document.pages) = 1

\* a text of the document that holds no markup character of its own
Escaped(text) ==
  text = Undefined \/ \A i \in 1..Len(text) : text[i] \notin {"<", ">", "\"", "'"}

\* title, artist, key, bar lyrics and chord names of the document
EscapedTexts ==
  /\ Escaped(document.title)
  /\ Escaped(document.header.title)
  /\ Escaped(document.header.artist)
  /\ Escaped(document.header.key)
  /\ \A p \in 1..Len(document.pages) : \A r \in 1..4 : \A b \in 1..4 :
       LET bar == document.pages[p].rows[r].bars[b]
       IN  /\ Escaped(bar.lyrics)
           /\ \A k \in 1..Len(bar.chordBoxes) : Escaped(bar.chordBoxes[k].text)

\* C24: no text of the composition reaches the document with a '<', '>' or
\* quote of its own: title, artist, key, tempo, capo, time signature, bar
\* lyrics and chord names are all escaped
C24_AllTextEscaped ==
  document.done =>
    /\ EscapedTexts
    /\ Escaped(document.header.tempo)
    /\ Escaped(document.header.time)
    /\ Escaped(document.header.capo)

\* an element drawn for a beat lies between the left and the right edge of
\* the viewBox of the row
OnCanvas(e) ==
  /\ ~RLess(e.x1, Num(0)) /\ ~RLess(Num(RowWidth), e.x1)
  /\ ~RLess(e.x2, Num(0)) /\ ~RLess(Num(RowWidth), e.x2)

\* C25: in every row of the printed page, every note head, accidental, stem
\* and fret number of every beat 0..15 is drawn at an x inside the viewBox
\* 0..800 of the row
C25_GlyphsOnCanvas ==
  pageOut.done =>
    \A r \in Rows : \A i \in 0..15 :
      /\ \A k \in 1..Len(GlyphsOf(pageOut.rows[r].notesSvg, i)) :
           OnCanvas(GlyphsOf(pageOut.rows[r].notesSvg, i)[k])
      /\ \A k \in 1..Len(GlyphsOf(pageOut.rows[r].tabSvg, i)) :
           OnCanvas(GlyphsOf(pageOut.rows[r].tabSvg, i)[k])

\* ------------------------------------------------------------------------
\* Properties: the editor and the store
\* ------------------------------------------------------------------------
\* the pages the editor is to show for the notes of a composition: the
\* stored pages, or one empty page without notes in a known format
ExpectedPages(doc) ==
  IF doc.kind \in {"pages", "single", "barChords"} THEN LoadedPages(doc)
  ELSE <<NewPage>>

\* C26: when another composition has become the current one, the editor
\* shows the pages of its notes, or one empty page when it has no notes in
\* a known format, and shows the first page
C26_LoadReplacesPages ==
  lastOp.op = "load" =>
    /\ allPages = ExpectedPages(currentNotes)
    /\ currentPage = 0

\* ------------------------------------------------------------------------
\* The composition store under its operations
\* ------------------------------------------------------------------------
StoreIds == 1..2
StoreNotes == {DocNone, DocText}
StoreComps == {Comp(id, n) : id \in StoreIds, n \in StoreNotes}

\* lists of compositions with distinct ids, as the cache or an import of
\* several files holds them
StoreLists ==
  {<<>>} \cup {<<c>> : c \in StoreComps}
         \cup {l \in {<<c, d>> : c \in StoreComps, d \in StoreComps} :
                 l[1].id # l[2].id}

InitStore ==
  /\ StoreIdle
  /\ compositions = [id \in CompIds |-> DocNone]
  /\ currentComposition = NoComposition
  /\ currentNotes = DocNone
  /\ allPages = <<NewPage>>
  /\ currentPage = 0
  /\ lastOp = NoOp
  /\ ops = 0
  /\ beatChords = <<>>
  /\ width = DefaultWidth
  /\ numMeasures = 0
  /\ scale = DefaultScale
  /\ EditorIdle
  /\ page = EmptyPage
  /\ options = AllOptions
  /\ PageIdle
  /\ ResolverIdle
  /\ PrintIdle

OutsideStore ==
  UNCHANGED <<renderVars, resolverVars, screenVars, printVars>>

StoreRest ==
  /\ OutsideStore
  /\ UNCHANGED <<edits, awaiting>>

\* no more than MaxAwaiting calls wait at a time
CanAwait == CountAwaiting(awaiting, AsyncFunctions) < MaxAwaiting

\* the service a call of fn waits for has answered, or has failed: the call
\* goes on in the state the store is in by then
StoreAnswer(fn) ==
  /\ awaiting[fn] > 0
  /\ awaiting' = [awaiting EXCEPT ![fn] = @ - 1]
  /\ UNCHANGED edits
  /\ OutsideStore

\* the inputs of the settings and section edits
StoreTempos == {90}
NewSectionIds == {"bridge"}
EditedSectionIds == {"chorus", "bridge"}
DeletedSectionIds == {"intro", "bridge"}
SectionLabel == "Refrain"

\* the ids of the sections of the current composition, last first
ReversedSectionIds ==
  IF state.currentComposition = Null THEN <<>>
  ELSE LET sections == state.currentComposition.sections
       IN  [i \in 1..Len(sections) |-> sections[Len(sections) + 1 - i].id]

StoreEdit ==
  /\ edits < MaxStoreEdits
  /\ edits' = edits + 1
  /\ UNCHANGED awaiting
  /\ OutsideStore

\* a new id is one no composition of the store has
CreateComposition ==
  /\ \E id \in StoreIds :
       /\ \A k \in 1..Len(state.compositions) : state.compositions[k].id # id
       /\ state.currentComposition.id # id
       /\ state' = createComposition(state, id)
  /\ StoreRest

AddComposition ==
  /\ \E c \in StoreComps : state' = addComposition(state, c)
  /\ StoreRest

SetCurrentComposition ==
  /\ \E id \in StoreIds : state' = setCurrentComposition(state, id)
  /\ StoreRest

StoreLoadComposition ==
  /\ \E id \in StoreIds : state' = loadComposition(state, id)
  /\ StoreRest

UpdateComposition ==
  /\ \E n \in StoreNotes : state' = storeUpdateComposition(state, n)
  /\ StoreRest

DeleteComposition ==
  /\ \E id \in StoreIds : state' = deleteComposition(state, id)
  /\ StoreRest

UpdateGlobalSettings ==
  /\ \E tempo \in StoreTempos : state' = updateGlobalSettings(state, tempo)
  /\ StoreEdit

\* the id of a new section is one no section of the store has
AddSection ==
  /\ \E id \in NewSectionIds :
       /\ state.currentComposition # Null =>
            findSection(state.currentComposition.sections, id) = 0
       /\ \A k \in 1..Len(state.compositions) :
            findSection(state.compositions[k].sections, id) = 0
       /\ state' = addSection(state, id, SectionLabel)
  /\ StoreEdit

UpdateSection ==
  /\ \E sectionId \in EditedSectionIds :
       state' = updateSection(state, sectionId, SectionLabel)
  /\ StoreEdit

DeleteSection ==
  /\ \E sectionId \in DeletedSectionIds :
       state' = deleteSection(state, sectionId)
  /\ StoreEdit

ReorderSections ==
  /\ \E sectionIds \in {ReversedSectionIds, <<"chorus", "bridge">>} :
       state' = reorderSections(state, sectionIds)
  /\ StoreEdit

\* importComposition() is called: it runs up to its first await (isLoading
\* and error, which the model does not hold, are set) and returns its
\* promise; compositions and currentComposition are as before
ImportComposition ==
  /\ CanAwait
  /\ awaiting' = [awaiting EXCEPT !["importComposition"] = @ + 1]
  /\ UNCHANGED <<state, edits>>
  /\ OutsideStore

\* storageService.importComposition() has answered and the set of
\* importComposition runs; when the service throws, the catch leaves the
\* compositions alone
ImportCompositionAnswered ==
  /\ StoreAnswer("importComposition")
  /\ \/ \E c \in StoreComps : state' = importComposition(state, c)
     \/ state' = state

\* importCompositions() is called
ImportCompositions ==
  /\ CanAwait
  /\ awaiting' = [awaiting EXCEPT !["importCompositions"] = @ + 1]
  /\ UNCHANGED <<state, edits>>
  /\ OutsideStore

ImportCompositionsAnswered ==
  /\ StoreAnswer("importCompositions")
  /\ \/ \E results \in StoreLists : state' = importCompositions(state, results)
     \/ state' = state

\* loadFromCache() is called
LoadFromCache ==
  /\ CanAwait
  /\ awaiting' = [awaiting EXCEPT !["loadFromCache"] = @ + 1]
  /\ UNCHANGED <<state, edits>>
  /\ OutsideStore

\* cacheService.loadFromCache() has answered and the set of loadFromCache
\* runs (after it a waiting initializeStore returns); when the service
\* throws, the catch leaves the compositions alone
LoadFromCacheAnswered ==
  /\ StoreAnswer("loadFromCache")
  /\ \/ \E cached \in StoreLists : state' = loadFromCache(state, cached)
     \/ state' = state

\* initializeStore() is called: it calls loadFromCache() and waits for it
InitializeStore ==
  /\ CanAwait
  /\ awaiting' = [awaiting EXCEPT !["loadFromCache"] = @ + 1]
  /\ UNCHANGED <<state, edits>>
  /\ OutsideStore

NextStore ==
  \/ CreateComposition
  \/ AddComposition
  \/ SetCurrentComposition
  \/ StoreLoadComposition
  \/ UpdateComposition
  \/ DeleteComposition
  \/ UpdateGlobalSettings
  \/ AddSection
  \/ UpdateSection
  \/ DeleteSection
  \/ ReorderSections
  \/ ImportComposition
  \/ ImportCompositionAnswered
  \/ ImportCompositions
  \/ ImportCompositionsAnswered
  \/ LoadFromCache
  \/ LoadFromCacheAnswered
  \/ InitializeStore

SpecStore == InitStore /\ [][NextStore]_vars

\* an entry of the list has the id and the content of currentComposition
CurrentListed ==
  \E k \in 1..Len(state.compositions) :
    state.compositions[k] = state.currentComposition

\* C27: whenever currentComposition is not null, the compositions list holds
\* an entry with the same id and the same content.
C27_CurrentInList ==
  state.currentComposition # Null => CurrentListed

\* C28: in every reachable editor state 0 <= currentPage < allPages.length,
\* and the current page has both barLyrics and barBeatChords.
C28_PageIndexInRange ==
  /\ 0 <= currentPage
  /\ currentPage < Len(allPages)
  /\ allPages[currentPage + 1].barLyrics # Undefined
  /\ allPages[currentPage + 1].barBeatChords # Undefined

\* the accidental a note name is spelled with: the sign after its letter
SpelledAccidental(name) ==
  IF Len(name) >= 2 /\ name[2] = "#" THEN "#"
  ELSE IF Len(name) >= 2 /\ name[2] = "b" THEN "b"
  ELSE ""

EditorAccidentalsRight ==
  editorNotes.done =>
    \A i \in 1..Len(editorNotes.notes) :
      AccidentalOf(editorNotes.notes[i].note)
        = SpelledAccidental(editorNotes.notes[i].note)

PrintAccidentalsRight ==
  printNotes.done =>
    \A i \in 1..Len(printNotes.notes) :
      printNotes.notes[i].accidental
        = CASE SpelledAccidental(printNotes.notes[i].pitch) = "#" -> "sharp"
            [] SpelledAccidental(printNotes.notes[i].pitch) = "b" -> "flat"
            [] OTHER -> "none"

\* C29: a pitch spelled with a flat is annotated flat, a pitch spelled with a
\* sharp is annotated sharp and a natural pitch has no accidental, in the
\* editor staff (B-flat included) and in the printed staff.
C29_AccidentalSpelling ==
  /\ EditorAccidentalsRight
  /\ PrintAccidentalsRight

\* the diatonic step of a letter of octave 4 above E4, the bottom line
LetterStep(letter) ==
  CASE letter = "C" -> -2 [] letter = "D" -> -1 [] letter = "E" -> 0
    [] letter = "F" -> 1  [] letter = "G" -> 2  [] letter = "A" -> 3
    [] letter = "B" -> 4  [] OTHER -> -100

\* the 12 roots in their sharp and flat spellings
Spellings ==
  { <<"C">>, <<"C", "#">>, <<"D", "b">>, <<"D">>, <<"D", "#">>, <<"E", "b">>,
    <<"E">>, <<"F">>, <<"F", "#">>, <<"G", "b">>, <<"G">>, <<"G", "#">>,
    <<"A", "b">>, <<"A">>, <<"A", "#">>, <<"B", "b">>, <<"B">> }

\* the note name of a staff note: its pitch without the octave
PitchName(note) == SubSeq(note.pitch, 1, Len(note.pitch) - 1)

\* C30: the staff step getNoteYPosition uses for a resolved pitch is the
\* diatonic step of the pitch's letter above E4, so a flat-spelled pitch sits
\* on the line or space of its own letter (Eb4 on E4's, Bb4 on B4's).
C30_StepFollowsLetter ==
  printNotes.done =>
    \A i \in 1..Len(printNotes.notes) :
      PitchName(printNotes.notes[i]) \in Spellings =>
        StepsFromE4(printNotes.notes[i].midiNote)
          = LetterStep(printNotes.notes[i].pitch[1])

====
